---- MODULE Spec2Model ----
(***************************************************************************)
(* Model of thinking2.c: an in-memory table stored as a singly linked list *)
(* of record nodes with a tail pointer, and a transient AVL index over one *)
(* column.                                                                 *)
(*                                                                         *)
(* Pointers to RecordNode are node ids (NULL is 0).  C strings are finite  *)
(* sequences of character codes >= 1; the one-element sequence <<0>>       *)
(* stands for a NULL char pointer (a NUL can never occur inside a string). *)
(* An AVL tree is a nested record; the empty tree (NULL) is AvlNull.       *)
(***************************************************************************)
EXTENDS Integers, Sequences, FiniteSets, TLC

VARIABLES table, heap, root, ret, cmd, file

vars == <<table, heap, root, ret, cmd, file>>

(* ------------------------------ bounds --------------------------------- *)

\* most rows the table is grown to (addRecord is not offered beyond it)
MaxRows == 3

\* integer keys 1..MaxKey are offered to direct index insertions
MaxKey == 7

(* --------------------------- basic values ------------------------------ *)

NULL == 0

NullStr == <<0>>

NodeIds == 1..MaxRows

\* values of Column.type / Cell.type
TypeInt == 1

TypeStr == 2

\* the schema handed to createTable
Schemas == {<< [name |-> "id", type |-> TypeInt], [name |-> "name", type |-> TypeStr] >>}

\* a Cell as a caller fills it in
IntCell(i) == [type |-> TypeInt, int_val |-> i]

StrCell(s) == [type |-> TypeStr, str_val |-> s]

\* the Cell* argument of addRecord / updateRecordByRowNum; <<>> is a NULL array
NullCells == <<>>

\* rows whose cell kinds match the schema (one with a NULL string pointer)
ValidRows ==
    {<<IntCell(1), StrCell(<<1>>)>>, <<IntCell(2), StrCell(<<1>>)>>, <<IntCell(3), StrCell(NullStr)>>}

\* rows with a wrong kind in the first column only, the second only, and both
MismatchRows ==
    {<<StrCell(<<1>>), StrCell(<<1>>)>>, <<IntCell(1), IntCell(2)>>, <<StrCell(<<1>>), IntCell(3)>>}

RowInputs == ValidRows \cup MismatchRows \cup {NullCells}

\* row numbers offered to delete / update / get
Positions == (0 - 1)..(MaxRows + 1)

\* a RecordNode slot that is not allocated
FreeNode == [free |-> TRUE]

IsFree(n) == "free" \in DOMAIN n

(* ------------------------------ table ---------------------------------- *)

createTable(numColumns, columns) ==
    [numColumns |-> numColumns,
     columns    |-> [i \in 1..numColumns |-> columns[i]],
     head       |-> NULL,
     tail       |-> NULL,
     rowCount   |-> 0]

deepCopyCells(src, numColumns) ==
    [i \in 1..numColumns |->
        IF src[i].type = 1
        THEN [type |-> src[i].type, int_val |-> src[i].int_val]
        ELSE [type |-> src[i].type,
              str_val |-> IF src[i].str_val = NullStr THEN <<>> ELSE src[i].str_val]]

freeCells(cells, numColumns) ==
    [i \in 1..numColumns |->
        IF cells[i].type # 1 /\ cells[i].str_val # NullStr
        THEN [cells[i] EXCEPT !.str_val = NullStr]
        ELSE cells[i]]

\* the validation loop stopping after the first column
FirstMismatchFirstOnly(t, cells) ==
    IF cells[1].type # t.columns[1].type THEN 1 ELSE 0

\* the validation loop starting at the second column
FirstMismatchSkipFirst(t, cells) ==
    LET bad == {i \in 2..t.numColumns : cells[i].type # t.columns[i].type}
    IN  IF bad = {} THEN 0 ELSE CHOOSE i \in bad : \A j \in bad : i <= j

\* the type validation loop of addRecord and updateRecordByRowNum: the number
\* (i + 1) printed for the first column whose kind differs, 0 when none does
FirstMismatch(t, cells) ==
    LET bad == {i \in 1..t.numColumns : cells[i].type # t.columns[i].type}
    IN  IF bad = {} THEN 0 ELSE CHOOSE i \in bad : \A j \in bad : i <= j

\* the row number check with the lower limit off by one
OutOfRangeFromZero(t, rowNum) == rowNum < 0 \/ rowNum > t.rowCount

\* the row number check shared by delete, update and get
OutOfRange(t, rowNum) == rowNum < 1 \/ rowNum > t.rowCount

\* the traversal loop with idx <= rowNum: it stops one node too late
RECURSIVE WalkToOvershoot(_, _, _, _, _)
WalkToOvershoot(h, prev, current, idx, rowNum) ==
    IF current # NULL /\ idx <= rowNum
    THEN WalkToOvershoot(h, current, h[current].next, idx + 1, rowNum)
    ELSE [prev |-> prev, current |-> current]

\* the traversal loop: while (current && idx < rowNum), keeping the predecessor
RECURSIVE WalkTo(_, _, _, _, _)
WalkTo(h, prev, current, idx, rowNum) ==
    IF current # NULL /\ idx < rowNum
    THEN WalkTo(h, current, h[current].next, idx + 1, rowNum)
    ELSE [prev |-> prev, current |-> current]

getRecordByRowNum(t, h, rowNum) ==
    IF OutOfRange(t, rowNum)
    THEN NULL
    ELSE WalkTo(h, NULL, t.head, 1, rowNum).current

\* what a call leaves behind: the table, the nodes, the return value and the
\* column number of the "type mismatch" message it printed (0: none)
Outcome(t, h, val, msg) == [table |-> t, heap |-> h, val |-> val, msg |-> msg]

\* addRecord that links the new node but leaves table->tail where it was
addRecordStaleTail(t, h, cells, newNode) ==
    IF cells = NullCells
    THEN Outcome(t, h, NULL, 0)
    ELSE IF FirstMismatch(t, cells) # 0
    THEN Outcome(t, h, NULL, FirstMismatch(t, cells))
    ELSE LET node == [cells |-> deepCopyCells(cells, t.numColumns), next |-> NULL]
             h1   == [h EXCEPT ![newNode] = node]
         IN  IF t.head = NULL
             THEN Outcome([t EXCEPT !.head = newNode, !.tail = newNode,
                                    !.rowCount = t.rowCount + 1],
                          h1, newNode, 0)
             ELSE Outcome([t EXCEPT !.rowCount = t.rowCount + 1],
                          [h1 EXCEPT ![t.tail].next = newNode], newNode, 0)

\* addRecord; newNode is the address malloc returns
addRecord(t, h, cells, newNode) ==
    IF cells = NullCells
    THEN Outcome(t, h, NULL, 0)
    ELSE IF FirstMismatch(t, cells) # 0
    THEN Outcome(t, h, NULL, FirstMismatch(t, cells))
    ELSE LET node == [cells |-> deepCopyCells(cells, t.numColumns), next |-> NULL]
             h1   == [h EXCEPT ![newNode] = node]
         IN  IF t.head = NULL
             THEN Outcome([t EXCEPT !.head = newNode, !.tail = newNode,
                                    !.rowCount = t.rowCount + 1],
                          h1, newNode, 0)
             ELSE Outcome([t EXCEPT !.tail = newNode, !.rowCount = t.rowCount + 1],
                          [h1 EXCEPT ![t.tail].next = newNode], newNode, 0)

\* deleteRecordByRowNum without the tail update for the last row
deleteRecordByRowNumStaleTail(t, h, rowNum) ==
    IF OutOfRange(t, rowNum)
    THEN Outcome(t, h, 0, 0)
    ELSE LET w       == WalkTo(h, NULL, t.head, 1, rowNum)
             prev    == w.prev
             current == w.current
         IN  IF current = NULL
             THEN Outcome(t, h, 0, 0)
             ELSE LET h1 == IF prev # NULL
                            THEN [h EXCEPT ![prev].next = h[current].next]
                            ELSE h
                      t1 == IF prev # NULL
                            THEN t
                            ELSE [t EXCEPT !.head = h[current].next]
                  IN  Outcome([t1 EXCEPT !.rowCount = t.rowCount - 1],
                              [h1 EXCEPT ![current] = FreeNode], 1, 0)

deleteRecordByRowNum(t, h, rowNum) ==
    IF OutOfRange(t, rowNum)
    THEN Outcome(t, h, 0, 0)
    ELSE LET w       == WalkTo(h, NULL, t.head, 1, rowNum)
             prev    == w.prev
             current == w.current
         IN  IF current = NULL
             THEN Outcome(t, h, 0, 0)
             ELSE LET h1 == IF prev # NULL
                            THEN [h EXCEPT ![prev].next = h[current].next]
                            ELSE h
                      t1 == IF prev # NULL
                            THEN t
                            ELSE [t EXCEPT !.head = h[current].next]
                      t2 == IF t1.tail = current
                            THEN [t1 EXCEPT !.tail = prev]
                            ELSE t1
                  IN  Outcome([t2 EXCEPT !.rowCount = t.rowCount - 1],
                              [h1 EXCEPT ![current] = FreeNode], 1, 0)

\* updateRecordByRowNum counting the rows from 0
updateRecordByRowNumFromZero(t, h, rowNum, newCells) ==
    IF newCells = NullCells
    THEN Outcome(t, h, 0, 0)
    ELSE IF OutOfRange(t, rowNum)
    THEN Outcome(t, h, 0, 0)
    ELSE IF FirstMismatch(t, newCells) # 0
    THEN Outcome(t, h, 0, FirstMismatch(t, newCells))
    ELSE LET current == WalkTo(h, NULL, t.head, 0, rowNum).current
         IN  IF current = NULL
             THEN Outcome(t, h, 0, 0)
             ELSE Outcome(t,
                          [h EXCEPT ![current].cells =
                                  deepCopyCells(newCells, t.numColumns)],
                          1, 0)

updateRecordByRowNum(t, h, rowNum, newCells) ==
    IF newCells = NullCells
    THEN Outcome(t, h, 0, 0)
    ELSE IF OutOfRange(t, rowNum)
    THEN Outcome(t, h, 0, 0)
    ELSE IF FirstMismatch(t, newCells) # 0
    THEN Outcome(t, h, 0, FirstMismatch(t, newCells))
    ELSE LET current == WalkTo(h, NULL, t.head, 1, rowNum).current
         IN  IF current = NULL
             THEN Outcome(t, h, 0, 0)
             ELSE LET freed == freeCells(h[current].cells, t.numColumns)
                      h1    == [h EXCEPT ![current].cells = freed]
                  IN  Outcome(t,
                              [h1 EXCEPT ![current].cells =
                                      deepCopyCells(newCells, t.numColumns)],
                              1, 0)

(* ---------------------------- AVL index -------------------------------- *)

\* the empty tree (a NULL AVLNode pointer)
AvlNull == [null |-> TRUE]

IsNull(node) == "null" \in DOMAIN node

getHeight(node) == IF IsNull(node) THEN 0 ELSE node.height

maxInt(a, b) == IF a > b THEN a ELSE b

\* updateHeight leaving the stored height as it was
updateHeightSkipped(node) == node

updateHeight(node) ==
    IF IsNull(node)
    THEN node
    ELSE [node EXCEPT !.height = 1 + maxInt(getHeight(node.left), getHeight(node.right))]

getBalance(node) ==
    IF IsNull(node) THEN 0 ELSE getHeight(node.left) - getHeight(node.right)

\* rotateRight re-heighting x before y: x is measured against y's old height
rotateRightStaleHeight(y) ==
    LET x  == y.left
        T2 == x.right
        y0 == [y EXCEPT !.left = T2]
        x1 == updateHeight([x EXCEPT !.right = y0])
    IN  [x1 EXCEPT !.right = updateHeight(y0)]

\* x = y->left becomes the root; y is re-heighted first, then x
rotateRight(y) ==
    LET x  == y.left
        T2 == x.right
        y1 == updateHeight([y EXCEPT !.left = T2])
    IN  updateHeight([x EXCEPT !.right = y1])

\* rotateLeft hanging T2 on x->left instead of x->right
rotateLeftWrongLink(x) ==
    LET y  == x.right
        T2 == y.left
        x1 == updateHeight([x EXCEPT !.left = T2])
    IN  updateHeight([y EXCEPT !.left = x1])

\* rotateLeft re-heighting y before x: y is measured against x's old height
rotateLeftStaleHeight(x) ==
    LET y  == x.right
        T2 == y.left
        x0 == [x EXCEPT !.right = T2]
        y1 == updateHeight([y EXCEPT !.left = x0])
    IN  [y1 EXCEPT !.left = updateHeight(x0)]

\* y = x->right becomes the root; x is re-heighted first, then y
rotateLeft(x) ==
    LET y  == x.right
        T2 == y.left
        x1 == updateHeight([x EXCEPT !.right = T2])
    IN  updateHeight([y EXCEPT !.left = x1])

\* sign of strcmp(a, b): unsigned char comparison, a proper prefix is smaller
RECURSIVE strcmp(_, _)
strcmp(a, b) ==
    IF a = <<>> /\ b = <<>> THEN 0
    ELSE IF a = <<>> THEN 0 - 1
    ELSE IF b = <<>> THEN 1
    ELSE IF Head(a) < Head(b) THEN 0 - 1
    ELSE IF Head(a) > Head(b) THEN 1
    ELSE strcmp(Tail(a), Tail(b))

\* rebalancing without the double rotations: one rotation in all four cases
RebalanceSingleOnly(node, balance, cmpLeft, cmpRight) ==
    IF balance > 1 /\ cmpLeft # 0 THEN rotateRight(node)
    ELSE IF balance < 0 - 1 /\ cmpRight # 0 THEN rotateLeft(node)
    ELSE node

\* the rebalancing tail shared by both insert functions: cmpLeft / cmpRight are
\* the comparisons of the new key with node->left's and node->right's key
Rebalance(node, balance, cmpLeft, cmpRight) ==
    IF balance > 1 /\ cmpLeft < 0 THEN rotateRight(node)
    ELSE IF balance < 0 - 1 /\ cmpRight > 0 THEN rotateLeft(node)
    ELSE IF balance > 1 /\ cmpLeft > 0
         THEN rotateRight([node EXCEPT !.left = rotateLeft(node.left)])
    ELSE IF balance < 0 - 1 /\ cmpRight < 0
         THEN rotateLeft([node EXCEPT !.right = rotateRight(node.right)])
    ELSE node

\* sign of the int comparison key <=> other
CmpInt(key, other) == IF key < other THEN 0 - 1 ELSE IF key > other THEN 1 ELSE 0

\* the equal-key branch re-pointing the node at the row just seen
OnEqualKeyOverwrite(node, record) == [node EXCEPT !.record = record]

\* the equal-key branch of both insert functions: the node is returned as it is
OnEqualKey(node, record) == node

RECURSIVE insertAVLInt(_, _, _)
insertAVLInt(node, key, record) ==
    IF IsNull(node)
    THEN [intKey |-> key, strKey |-> NullStr, keyType |-> 1, record |-> record,
          left |-> AvlNull, right |-> AvlNull, height |-> 1]
    ELSE IF key = node.intKey
    THEN OnEqualKey(node, record)
    ELSE LET n1 == IF key < node.intKey
                   THEN [node EXCEPT !.left = insertAVLInt(node.left, key, record)]
                   ELSE [node EXCEPT !.right = insertAVLInt(node.right, key, record)]
             n2 == updateHeight(n1)
             balance == getBalance(n2)
         IN  Rebalance(n2, balance,
                       IF balance > 1 THEN CmpInt(key, n2.left.intKey) ELSE 0,
                       IF balance < 0 - 1 THEN CmpInt(key, n2.right.intKey) ELSE 0)

RECURSIVE insertAVLStr(_, _, _)
insertAVLStr(node, key, record) ==
    IF IsNull(node)
    THEN [intKey |-> 0, strKey |-> key, keyType |-> 2, record |-> record,
          left |-> AvlNull, right |-> AvlNull, height |-> 1]
    ELSE LET cmp == strcmp(key, node.strKey)
         IN  IF cmp = 0
             THEN OnEqualKey(node, record)
             ELSE LET n1 == IF cmp < 0
                            THEN [node EXCEPT !.left = insertAVLStr(node.left, key, record)]
                            ELSE [node EXCEPT !.right = insertAVLStr(node.right, key, record)]
                      n2 == updateHeight(n1)
                      balance == getBalance(n2)
                  IN  Rebalance(n2, balance,
                                IF balance > 1 THEN strcmp(key, n2.left.strKey) ELSE 0,
                                IF balance < 0 - 1 THEN strcmp(key, n2.right.strKey) ELSE 0)

\* the while (cur) loop of buildAVLIndex, from list node cur on
RECURSIVE BuildFrom(_, _, _, _, _)
BuildFrom(h, cur, colIndex, isInt, acc) ==
    IF cur = NULL
    THEN acc
    ELSE BuildFrom(h, h[cur].next, colIndex, isInt,
                   IF isInt
                   THEN insertAVLInt(acc, h[cur].cells[colIndex].int_val, cur)
                   ELSE insertAVLStr(acc, h[cur].cells[colIndex].str_val, cur))

\* colIndex is 1-based here (the C index plus one)
buildAVLIndex(t, h, colIndex) ==
    IF colIndex < 1 \/ colIndex > t.numColumns
    THEN AvlNull
    ELSE BuildFrom(h, t.head, colIndex, t.columns[colIndex].type = 1, AvlNull)

\* freeAVL that returns without freeing: the caller's tree stays allocated
freeAVLLeak(node) == node

freeAVL(node) == AvlNull

(* --------------------------- result sets ------------------------------- *)

\* the two parallel arrays hold `count` entries; what lies beyond is not read
createSearchResult ==
    [records |-> <<>>, rowNums |-> <<>>, count |-> 0, capacity |-> 16]

\* addToResultWithRowNum that stores the entry's own index as the position
addToResultWithIndex(sr, rec, rowNum) ==
    [records  |-> Append(sr.records, rec),
     rowNums  |-> Append(sr.rowNums, sr.count + 1),
     count    |-> sr.count + 1,
     capacity |-> IF sr.count >= sr.capacity THEN sr.capacity * 2 ELSE sr.capacity]

\* addToResultWithRowNum growing only once count has passed capacity
addToResultWithRowNumGrowLate(sr, rec, rowNum) ==
    [records  |-> Append(sr.records, rec),
     rowNums  |-> Append(sr.rowNums, rowNum),
     count    |-> sr.count + 1,
     capacity |-> IF sr.count > sr.capacity THEN sr.capacity * 2 ELSE sr.capacity]

addToResultWithRowNum(sr, rec, rowNum) ==
    [records  |-> Append(sr.records, rec),
     rowNums  |-> Append(sr.rowNums, rowNum),
     count    |-> sr.count + 1,
     capacity |-> IF sr.count >= sr.capacity THEN sr.capacity * 2 ELSE sr.capacity]

\* the position is unknown to the caller: 0
addToResult(sr, rec) == addToResultWithRowNum(sr, rec, 0)

(* --------------------------- linear search ----------------------------- *)

\* what linearFindMax / linearFindMin hand back: the node (NULL for none) and
\* the caller's rowNum variable, which every caller initialises to 0
Found(rec, rowNum) == [rec |-> rec, rowNum |-> rowNum]

\* the loop of linearFindMax moving to a later row of equal value
RECURSIVE MaxScanLastOnTies(_, _, _, _, _, _)
MaxScanLastOnTies(h, cur, rowNum, colIndex, maxNode, maxRowNum) ==
    IF cur = NULL
    THEN Found(maxNode, maxRowNum)
    ELSE IF h[cur].cells[colIndex].int_val >= h[maxNode].cells[colIndex].int_val
         THEN MaxScanLastOnTies(h, h[cur].next, rowNum + 1, colIndex, cur, rowNum)
         ELSE MaxScanLastOnTies(h, h[cur].next, rowNum + 1, colIndex, maxNode, maxRowNum)

\* the while loop of linearFindMax
RECURSIVE MaxScan(_, _, _, _, _, _)
MaxScan(h, cur, rowNum, colIndex, maxNode, maxRowNum) ==
    IF cur = NULL
    THEN Found(maxNode, maxRowNum)
    ELSE IF h[cur].cells[colIndex].int_val > h[maxNode].cells[colIndex].int_val
         THEN MaxScan(h, h[cur].next, rowNum + 1, colIndex, cur, rowNum)
         ELSE MaxScan(h, h[cur].next, rowNum + 1, colIndex, maxNode, maxRowNum)

linearFindMax(t, h, colIndex) ==
    IF t.head = NULL
    THEN Found(NULL, 0)
    ELSE IF t.columns[colIndex].type # 1
         THEN Found(NULL, 0)
         ELSE MaxScan(h, h[t.head].next, 2, colIndex, t.head, 1)

\* the loop of linearFindMin moving to a later row of equal value
RECURSIVE MinScanLastOnTies(_, _, _, _, _, _)
MinScanLastOnTies(h, cur, rowNum, colIndex, minNode, minRowNum) ==
    IF cur = NULL
    THEN Found(minNode, minRowNum)
    ELSE IF h[cur].cells[colIndex].int_val <= h[minNode].cells[colIndex].int_val
         THEN MinScanLastOnTies(h, h[cur].next, rowNum + 1, colIndex, cur, rowNum)
         ELSE MinScanLastOnTies(h, h[cur].next, rowNum + 1, colIndex, minNode, minRowNum)

\* the while loop of linearFindMin
RECURSIVE MinScan(_, _, _, _, _, _)
MinScan(h, cur, rowNum, colIndex, minNode, minRowNum) ==
    IF cur = NULL
    THEN Found(minNode, minRowNum)
    ELSE IF h[cur].cells[colIndex].int_val < h[minNode].cells[colIndex].int_val
         THEN MinScan(h, h[cur].next, rowNum + 1, colIndex, cur, rowNum)
         ELSE MinScan(h, h[cur].next, rowNum + 1, colIndex, minNode, minRowNum)

linearFindMin(t, h, colIndex) ==
    IF t.head = NULL
    THEN Found(NULL, 0)
    ELSE IF t.columns[colIndex].type # 1
         THEN Found(NULL, 0)
         ELSE MinScan(h, h[t.head].next, 2, colIndex, t.head, 1)

\* the scan loop of linearFindEqual
RECURSIVE EqualScan(_, _, _, _, _, _)
EqualScan(h, cur, rowNum, colIndex, value, sr) ==
    IF cur = NULL
    THEN sr
    ELSE LET cell == h[cur].cells[colIndex]
         IN  EqualScan(h, h[cur].next, rowNum + 1, colIndex, value,
                       IF cell.type = 1 /\ cell.int_val = value
                       THEN addToResultWithRowNum(sr, cur, rowNum)
                       ELSE sr)

linearFindEqual(t, h, colIndex, value) ==
    EqualScan(h, t.head, 1, colIndex, value, createSearchResult)

\* the scan loop of linearFindGE
RECURSIVE GEScan(_, _, _, _, _, _)
GEScan(h, cur, rowNum, colIndex, value, sr) ==
    IF cur = NULL
    THEN sr
    ELSE LET cell == h[cur].cells[colIndex]
         IN  GEScan(h, h[cur].next, rowNum + 1, colIndex, value,
                    IF cell.type = 1 /\ cell.int_val >= value
                    THEN addToResultWithRowNum(sr, cur, rowNum)
                    ELSE sr)

linearFindGE(t, h, colIndex, value) ==
    GEScan(h, t.head, 1, colIndex, value, createSearchResult)

\* the scan loop of linearFindLE
RECURSIVE LEScan(_, _, _, _, _, _)
LEScan(h, cur, rowNum, colIndex, value, sr) ==
    IF cur = NULL
    THEN sr
    ELSE LET cell == h[cur].cells[colIndex]
         IN  LEScan(h, h[cur].next, rowNum + 1, colIndex, value,
                    IF cell.type = 1 /\ cell.int_val <= value
                    THEN addToResultWithRowNum(sr, cur, rowNum)
                    ELSE sr)

linearFindLE(t, h, colIndex, value) ==
    LEScan(h, t.head, 1, colIndex, value, createSearchResult)

\* strstr that only looks at the start of str
strstrAtStart(str, substr) ==
    Len(substr) <= Len(str) /\ SubSeq(str, 1, Len(substr)) = substr

\* strstr(str, substr) # NULL: substr occurs in str at some offset
strstr(str, substr) ==
    \E i \in 0..(Len(str) - Len(substr)) :
        SubSeq(str, i + 1, i + Len(substr)) = substr

\* the scan loop of linearFindContains
RECURSIVE ContainsScan(_, _, _, _, _, _)
ContainsScan(h, cur, rowNum, colIndex, substr, sr) ==
    IF cur = NULL
    THEN sr
    ELSE LET cell == h[cur].cells[colIndex]
         IN  ContainsScan(h, h[cur].next, rowNum + 1, colIndex, substr,
                          IF cell.type = 2 /\ cell.str_val # NullStr /\ strstr(cell.str_val, substr)
                          THEN addToResultWithRowNum(sr, cur, rowNum)
                          ELSE sr)

linearFindContains(t, h, colIndex, substr) ==
    ContainsScan(h, t.head, 1, colIndex, substr, createSearchResult)

\* the scan loop of linearFindStrEqual
RECURSIVE StrEqualScan(_, _, _, _, _, _)
StrEqualScan(h, cur, rowNum, colIndex, str, sr) ==
    IF cur = NULL
    THEN sr
    ELSE LET cell == h[cur].cells[colIndex]
         IN  StrEqualScan(h, h[cur].next, rowNum + 1, colIndex, str,
                          IF cell.type = 2 /\ cell.str_val # NullStr /\ strcmp(cell.str_val, str) = 0
                          THEN addToResultWithRowNum(sr, cur, rowNum)
                          ELSE sr)

linearFindStrEqual(t, h, colIndex, str) ==
    StrEqualScan(h, t.head, 1, colIndex, str, createSearchResult)

(* --------------------------- index queries ----------------------------- *)

RECURSIVE avlFindMax(_)
avlFindMax(node) ==
    IF IsNull(node) THEN AvlNull
    ELSE IF IsNull(node.right) THEN node ELSE avlFindMax(node.right)

RECURSIVE avlFindMin(_)
avlFindMin(node) ==
    IF IsNull(node) THEN AvlNull
    ELSE IF IsNull(node.left) THEN node ELSE avlFindMin(node.left)

\* avlFindEqual that goes left whenever the key differs
RECURSIVE avlFindEqualLeftOnly(_, _)
avlFindEqualLeftOnly(node, value) ==
    IF IsNull(node) THEN AvlNull
    ELSE IF value # node.intKey THEN avlFindEqualLeftOnly(node.left, value)
    ELSE node

RECURSIVE avlFindEqual(_, _)
avlFindEqual(node, value) ==
    IF IsNull(node) THEN AvlNull
    ELSE IF value < node.intKey THEN avlFindEqual(node.left, value)
    ELSE IF value > node.intKey THEN avlFindEqual(node.right, value)
    ELSE node

\* avlFindGEHelper that does not descend to the left of a node it accepts
RECURSIVE avlFindGEHelperSkipLeft(_, _, _)
avlFindGEHelperSkipLeft(node, value, sr) ==
    IF IsNull(node) THEN sr
    ELSE IF node.intKey >= value
         THEN avlFindGEHelperSkipLeft(node.right, value, addToResult(sr, node.record))
         ELSE avlFindGEHelperSkipLeft(node.right, value, sr)

RECURSIVE avlFindGEHelper(_, _, _)
avlFindGEHelper(node, value, sr) ==
    IF IsNull(node) THEN sr
    ELSE IF node.intKey >= value
         THEN avlFindGEHelper(node.right, value,
                  addToResult(avlFindGEHelper(node.left, value, sr), node.record))
         ELSE avlFindGEHelper(node.right, value, sr)

avlFindGE(node, value) == avlFindGEHelper(node, value, createSearchResult)

\* avlFindLEHelper that does not descend to the right of a node it accepts
RECURSIVE avlFindLEHelperSkipRight(_, _, _)
avlFindLEHelperSkipRight(node, value, sr) ==
    IF IsNull(node) THEN sr
    ELSE IF node.intKey <= value
         THEN addToResult(avlFindLEHelperSkipRight(node.left, value, sr), node.record)
         ELSE avlFindLEHelperSkipRight(node.left, value, sr)

RECURSIVE avlFindLEHelper(_, _, _)
avlFindLEHelper(node, value, sr) ==
    IF IsNull(node) THEN sr
    ELSE IF node.intKey <= value
         THEN avlFindLEHelper(node.right, value,
                  addToResult(avlFindLEHelper(node.left, value, sr), node.record))
         ELSE avlFindLEHelper(node.left, value, sr)

avlFindLE(node, value) == avlFindLEHelper(node, value, createSearchResult)

\* avlCollectTopN that adds the node without looking at *collected again
RECURSIVE avlCollectTopNNoRecheck(_, _, _)
avlCollectTopNNoRecheck(node, sr, n) ==
    IF IsNull(node) THEN sr
    ELSE IF sr.count >= n THEN sr
    ELSE avlCollectTopNNoRecheck(node.left,
             addToResult(avlCollectTopNNoRecheck(node.right, sr, n), node.record), n)

\* reverse in-order walk; the state threaded through is sr (*collected = sr.count)
RECURSIVE avlCollectTopN(_, _, _)
avlCollectTopN(node, sr, n) ==
    IF IsNull(node) THEN sr
    ELSE IF sr.count >= n THEN sr
    ELSE LET a == avlCollectTopN(node.right, sr, n)
             b == IF a.count < n THEN addToResult(a, node.record) ELSE a
         IN  avlCollectTopN(node.left, b, n)

avlFindTopN(node, n) == avlCollectTopN(node, createSearchResult, n)

RECURSIVE avlCollectBottomN(_, _, _)
avlCollectBottomN(node, sr, n) ==
    IF IsNull(node) THEN sr
    ELSE IF sr.count >= n THEN sr
    ELSE LET a == avlCollectBottomN(node.left, sr, n)
             b == IF a.count < n THEN addToResult(a, node.record) ELSE a
         IN  avlCollectBottomN(node.right, b, n)

avlFindBottomN(node, n) == avlCollectBottomN(node, createSearchResult, n)

(* ------------------------- TOP N / BOTTOM N ---------------------------- *)

\* the range of int
IntMax == 2147483647

IntMin == 0 - IntMax - 1

\* whether a - b is representable as an int (decided without forming a - b)
SubFits(a, b) == IF b < 0 THEN a <= IntMax + b ELSE a >= IntMin + b

Sign(d) == IF d < 0 THEN 0 - 1 ELSE IF d > 0 THEN 1 ELSE 0

SortItem(record, rowNum, value) == [record |-> record, rowNum |-> rowNum, value |-> value]

\* the signs a call of the comparator can return: that of b->value - a->value,
\* and any sign when the subtraction overflows int (undefined behaviour)
cmpDescending(a, b) ==
    IF SubFits(b.value, a.value) THEN {Sign(b.value - a.value)} ELSE {0 - 1, 0, 1}

\* the signs of a->value - b->value, any sign when the subtraction overflows
cmpAscending(a, b) ==
    IF SubFits(a.value, b.value) THEN {Sign(a.value - b.value)} ELSE {0 - 1, 0, 1}

\* the orders qsort can leave items in under the descending comparator: every
\* neighbouring pair is one the comparator, asked either way round, puts in
\* that order
qsortDescending(items) ==
    LET n == Len(items)
        perms == {f \in [1..n -> 1..n] : \A i, j \in 1..n : f[i] = f[j] => i = j}
        before(x, y) == (\E c \in cmpDescending(x, y) : c <= 0)
                            \/ (\E c \in cmpDescending(y, x) : c >= 0)
    IN  {[i \in 1..n |-> items[f[i]]] : f \in
            {g \in perms : \A i \in 1..(n - 1) : before(items[g[i]], items[g[i + 1]])}}

qsortAscending(items) ==
    LET n == Len(items)
        perms == {f \in [1..n -> 1..n] : \A i, j \in 1..n : f[i] = f[j] => i = j}
        before(x, y) == (\E c \in cmpAscending(x, y) : c <= 0)
                            \/ (\E c \in cmpAscending(y, x) : c >= 0)
    IN  {[i \in 1..n |-> items[f[i]]] : f \in
            {g \in perms : \A i \in 1..(n - 1) : before(items[g[i]], items[g[i + 1]])}}

\* the loop filling the temporary array of linearFindTopN / linearFindBottomN
RECURSIVE CollectItems(_, _, _, _, _)
CollectItems(h, cur, rowNum, colIndex, items) ==
    IF cur = NULL
    THEN items
    ELSE CollectItems(h, h[cur].next, rowNum + 1, colIndex,
                      Append(items, SortItem(cur, rowNum, h[cur].cells[colIndex].int_val)))

\* the loop copying the first count items into a new result set
RECURSIVE TakeItems(_, _, _, _)
TakeItems(items, i, count, sr) ==
    IF i > count
    THEN sr
    ELSE TakeItems(items, i + 1, count,
                   addToResultWithRowNum(sr, items[i].record, items[i].rowNum))

\* the result sets linearFindTopN can return (one per order qsort can produce)
linearFindTopN(t, h, colIndex, n) ==
    IF t.head = NULL
    THEN {createSearchResult}
    ELSE IF t.columns[colIndex].type # 1 \/ n <= 0
    THEN {createSearchResult}
    ELSE LET total == t.rowCount
             count == IF n < total THEN n ELSE total
         IN  {TakeItems(items, 1, count, createSearchResult) :
                 items \in qsortDescending(CollectItems(h, t.head, 1, colIndex, <<>>))}

linearFindBottomN(t, h, colIndex, n) ==
    IF t.head = NULL
    THEN {createSearchResult}
    ELSE IF t.columns[colIndex].type # 1 \/ n <= 0
    THEN {createSearchResult}
    ELSE LET total == t.rowCount
             count == IF n < total THEN n ELSE total
         IN  {TakeItems(items, 1, count, createSearchResult) :
                 items \in qsortAscending(CollectItems(h, t.head, 1, colIndex, <<>>))}

(* ------------------------- state and actions --------------------------- *)

\* record pointers handed to direct index insertions
RecRefs == {1, 2}

\* string keys handed to direct index insertions
StrKeys == {<<>>, <<1>>, <<2>>, <<1, 1>>, <<1, 2>>, <<2, 1>>, <<2, 2>>}

IntKeys == 1..MaxKey

FreeIds == {id \in NodeIds : IsFree(heap[id])}

\* no file of the name typed at "Filename:" exists
NoFile == [kind |-> "none"]

\* the locals of main while no command is running: control is at the menu
AtMenu == [pc |-> "menu"]

\* an index built by the running Search command has not been released yet
IndexLive == ret.op = "build"

Init ==
    /\ \E columns \in Schemas : table = createTable(Len(columns), columns)
    /\ heap = [id \in NodeIds |-> FreeNode]
    /\ root = AvlNull
    /\ ret = [op |-> "create", val |-> 0, msg |-> 0]
    /\ cmd = AtMenu
    /\ file = NoFile

\* menu command Append: one call of addRecord
AddRecord(cells) ==
    /\ ~IndexLive
    /\ IF cells = NullCells
       THEN TRUE
       ELSE IF FirstMismatch(table, cells) # 0 THEN TRUE ELSE table.rowCount < MaxRows
    /\ \E newNode \in (IF FreeIds = {} THEN {NULL} ELSE FreeIds) :
          LET r == addRecord(table, heap, cells, newNode)
          IN  /\ table' = r.table
              /\ heap' = r.heap
              /\ ret' = [op |-> "add", val |-> r.val, msg |-> r.msg]
    /\ UNCHANGED <<root, cmd, file>>

\* menu command Delete: one call of deleteRecordByRowNum
DeleteRecord(rowNum) ==
    /\ ~IndexLive
    /\ LET r == deleteRecordByRowNum(table, heap, rowNum)
       IN  /\ table' = r.table
           /\ heap' = r.heap
           /\ ret' = [op |-> "delete", val |-> r.val, msg |-> r.msg]
    /\ UNCHANGED <<root, cmd, file>>

\* menu command Update: one call of updateRecordByRowNum
UpdateRecord(rowNum, newCells) ==
    /\ ~IndexLive
    /\ LET r == updateRecordByRowNum(table, heap, rowNum, newCells)
       IN  /\ table' = r.table
           /\ heap' = r.heap
           /\ ret' = [op |-> "update", val |-> r.val, msg |-> r.msg]
    /\ UNCHANGED <<root, cmd, file>>

\* one call of getRecordByRowNum
GetRecord(rowNum) ==
    /\ ~IndexLive
    /\ ret' = [op |-> "get", val |-> getRecordByRowNum(table, heap, rowNum), msg |-> 0]
    /\ UNCHANGED <<table, heap, root, cmd, file>>

\* the Search command builds an index over one column ...
BuildIndex(colIndex) ==
    /\ ~IndexLive
    /\ root' = buildAVLIndex(table, heap, colIndex)
    /\ ret' = [op |-> "build", val |-> colIndex, msg |-> 0]
    /\ UNCHANGED <<table, heap, cmd, file>>

\* ... and releases it before the command ends
FreeIndex ==
    /\ IndexLive
    /\ root' = freeAVL(root)
    /\ ret' = [op |-> "free", val |-> 0, msg |-> 0]
    /\ UNCHANGED <<table, heap, cmd, file>>

Next ==
    \/ \E cells \in RowInputs : AddRecord(cells)
    \/ \E rowNum \in Positions : DeleteRecord(rowNum)
    \/ \E rowNum \in Positions, cells \in RowInputs :
          UpdateRecord(rowNum, cells)
    \/ \E rowNum \in Positions : GetRecord(rowNum)
    \/ \E colIndex \in 0..(table.numColumns + 1) : BuildIndex(colIndex)
    \/ FreeIndex

Spec == Init /\ [][Next]_vars

\* whether the pointer an insert call returns differs from the non-NULL root it
\* was given (a rotation at the root): 1 or 0
NewRoot(old, new) ==
    IF IsNull(old) THEN 0
    ELSE IF old.keyType = 1
    THEN (IF new.intKey # old.intKey THEN 1 ELSE 0)
    ELSE (IF new.strKey # old.strKey THEN 1 ELSE 0)

\* direct insertions into an initially empty index
InsertInt(key, record) ==
    /\ IF IsNull(root) THEN TRUE ELSE root.keyType = 1
    /\ root' = insertAVLInt(root, key, record)
    /\ ret' = [op |-> "insertInt", val |-> NewRoot(root, root'), msg |-> 0]
    /\ UNCHANGED <<table, heap, cmd, file>>

InsertStr(key, record) ==
    /\ IF IsNull(root) THEN TRUE ELSE root.keyType = 2
    /\ root' = insertAVLStr(root, key, record)
    /\ ret' = [op |-> "insertStr", val |-> NewRoot(root, root'), msg |-> 0]
    /\ UNCHANGED <<table, heap, cmd, file>>

NextAVL ==
    \/ \E key \in IntKeys, record \in RecRefs : InsertInt(key, record)
    \/ \E key \in StrKeys, record \in RecRefs : InsertStr(key, record)

SpecAVL == Init /\ [][NextAVL]_vars

\* freeAVL handing every node's row to free() as well
RECURSIVE RecordsFreedWithRows(_)
RecordsFreedWithRows(node) ==
    IF IsNull(node)
    THEN {}
    ELSE RecordsFreedWithRows(node.left) \cup RecordsFreedWithRows(node.right) \cup {node.record}

\* the RecordNode pointers a call of freeAVL hands to free(): for each node it
\* frees the node and the node's own copy of a Text key, never node->record
RECURSIVE RecordsFreed(_)
RecordsFreed(node) ==
    IF IsNull(node)
    THEN {}
    ELSE RecordsFreed(node.left) \cup RecordsFreed(node.right) \cup {}

(* ------------------------- the Search command -------------------------- *)

\* Integer values of the rows searched, and the Text value stored beside each
SearchInts == {IntMin, 1, IntMax}

SearchRows ==
    {<<IntCell(IntMin), StrCell(<<1>>)>>, <<IntCell(1), StrCell(<<1, 2>>)>>,
     <<IntCell(IntMax), StrCell(<<2>>)>>}

\* the numbers typed at "Enter value:" and "Enter N:"
SearchArgs == {IntMin, 1, 2, IntMax}

\* the texts typed at "Enter substring:"
SubStrs == {<<1>>, <<2>>}

\* the numbers typed at "Condition:" (9 stands for every number without a branch)
Conds == 1..9

\* addRecord called on rows[i], rows[i + 1], ... in turn, malloc handing out
\* node i for the i-th row
RECURSIVE AddAll(_, _, _, _)
AddAll(t, h, rows, i) ==
    IF i > Len(rows)
    THEN [table |-> t, heap |-> h]
    ELSE LET r == addRecord(t, h, rows[i], i)
         IN  AddAll(r.table, r.heap, rows, i + 1)

\* a table that Create and up to MaxRows Append commands have filled
InitSearch ==
    /\ \E columns \in Schemas :
       \E n \in 0..MaxRows :
       \E rows \in [1..n -> SearchRows] :
          LET s == AddAll(createTable(Len(columns), columns),
                          [id \in NodeIds |-> FreeNode], rows, 1)
          IN  /\ table = s.table
              /\ heap = s.heap
              /\ ret = [op |-> IF n = 0 THEN "create" ELSE "add", val |-> s.table.tail, msg |-> 0]
    /\ root = AvlNull
    /\ cmd = AtMenu
    /\ file = NoFile

\* the command ends with a message and without having searched
Said(msg) ==
    /\ ret' = [op |-> "search", val |-> 0, msg |-> msg]
    /\ UNCHANGED <<table, heap, root, cmd, file>>

\* what a branch holds between its two halves: the linear result (res1) and
\* the index just built
Started(colIndex, cond, val, res1) ==
    /\ cmd' = [pc |-> "built", cond |-> cond, colIndex |-> colIndex, val |-> val, res1 |-> res1]
    /\ root' = buildAVLIndex(table, heap, colIndex)
    /\ ret' = [op |-> "build", val |-> colIndex, msg |-> 0]
    /\ UNCHANGED <<table, heap, file>>

\* what a finished search printed from: both results
Results(colIndex, cond, val, res1, res2) ==
    [op  |-> "search",
     val |-> [cond |-> cond, colIndex |-> colIndex, val |-> val, res1 |-> res1, res2 |-> res2],
     msg |-> "Results"]

\* menu command Search up to and including buildAVLIndex; colIndex is the
\* column number typed plus one
SearchBegin(colIndex, cond, val, substr) ==
    /\ cmd.pc = "menu"
    /\ IF table.rowCount = 0
       THEN Said("Table is empty or not created.")
       ELSE IF colIndex < 1 \/ colIndex > table.numColumns
       THEN Said("Invalid column.")
       ELSE LET type == table.columns[colIndex].type
            IN  IF cond = 1 /\ type = 1
                THEN Started(colIndex, cond, 0, linearFindMax(table, heap, colIndex))
                ELSE IF cond = 2 /\ type = 1
                THEN Started(colIndex, cond, 0, linearFindMin(table, heap, colIndex))
                ELSE IF cond = 3 /\ type = 1
                THEN Started(colIndex, cond, val, linearFindEqual(table, heap, colIndex, val))
                ELSE IF cond = 4 /\ type = 1
                THEN Started(colIndex, cond, val, linearFindGE(table, heap, colIndex, val))
                ELSE IF cond = 5 /\ type = 1
                THEN Started(colIndex, cond, val, linearFindLE(table, heap, colIndex, val))
                ELSE IF cond = 6 /\ type = 2
                THEN /\ ret' = Results(colIndex, cond, substr,
                                       linearFindContains(table, heap, colIndex, substr), 0)
                     /\ UNCHANGED <<table, heap, root, cmd, file>>
                ELSE IF cond = 7 /\ type = 1
                THEN IF val <= 0
                     THEN Said("Invalid N.")
                     ELSE \E sr1 \in linearFindTopN(table, heap, colIndex, val) :
                             Started(colIndex, cond, val, sr1)
                ELSE IF cond = 8 /\ type = 1
                THEN IF val <= 0
                     THEN Said("Invalid N.")
                     ELSE \E sr1 \in linearFindBottomN(table, heap, colIndex, val) :
                             Started(colIndex, cond, val, sr1)
                ELSE Said("Invalid condition for this column type.")

\* the rest of the branch: the query on the index, the printing, freeAVL
SearchEnd ==
    /\ cmd.pc = "built"
    /\ LET res2 == CASE cmd.cond = 1 -> avlFindMax(root)
                     [] cmd.cond = 2 -> avlFindMin(root)
                     [] cmd.cond = 3 -> avlFindEqual(root, cmd.val)
                     [] cmd.cond = 4 -> avlFindGE(root, cmd.val)
                     [] cmd.cond = 5 -> avlFindLE(root, cmd.val)
                     [] cmd.cond = 7 -> avlFindTopN(root, cmd.val)
                     [] cmd.cond = 8 -> avlFindBottomN(root, cmd.val)
       IN  ret' = Results(cmd.colIndex, cmd.cond, cmd.val, cmd.res1, res2)
    /\ root' = freeAVL(root)
    /\ heap' = [id \in NodeIds |-> IF id \in RecordsFreed(root) THEN FreeNode ELSE heap[id]]
    /\ cmd' = AtMenu
    /\ UNCHANGED <<table, file>>

NextSearch ==
    \/ \E colIndex \in 0..(table.numColumns + 1), cond \in Conds \ {6}, val \in SearchArgs :
          SearchBegin(colIndex, cond, val, <<>>)
    \/ \E colIndex \in 0..(table.numColumns + 1), substr \in SubStrs :
          SearchBegin(colIndex, 6, 0, substr)
    \/ SearchEnd

SpecSearch == InitSearch /\ [][NextSearch]_vars

(* ------------------------- saving and loading -------------------------- *)

\* cJSON items.  A number item has a NULL valuestring, a string item has
\* valueint 0; an object's members and an array's elements are kept in the
\* order they were added; a member's name is its field `string`.
cJSON_CreateNumber(n) ==
    [type |-> "Number",
     valueint |-> IF n >= IntMax THEN IntMax ELSE IF n <= IntMin THEN IntMin ELSE n,
     valuestring |-> NullStr]

cJSON_CreateString(s) == [type |-> "String", valueint |-> 0, valuestring |-> s]

cJSON_CreateArray == [type |-> "Array", child |-> <<>>]

cJSON_CreateObject == [type |-> "Object", child |-> <<>>]

\* a NULL cJSON pointer
NoItem == [type |-> "NULL"]

IsNoItem(item) == item.type = "NULL"

cJSON_AddItemToArray(array, item) == [array EXCEPT !.child = Append(@, item)]

\* the member is appended whether or not the name is already in use
cJSON_AddItemToObject(object, name, item) ==
    [object EXCEPT !.child = Append(@, [string |-> name, item |-> item])]

\* the first member of that name, NULL when there is none or object is NULL
cJSON_GetObjectItemCaseSensitive(object, name) ==
    IF IsNoItem(object) THEN NoItem
    ELSE IF object.type # "Object" THEN NoItem
    ELSE LET hits == {i \in 1..Len(object.child) : object.child[i].string = name}
         IN  IF hits = {}
             THEN NoItem
             ELSE object.child[CHOOSE i \in hits : \A k \in hits : i <= k].item

\* index is 0-based
cJSON_GetArrayItem(array, index) ==
    IF IsNoItem(array) THEN NoItem
    ELSE IF array.type # "Array" THEN NoItem
    ELSE IF index < 0 \/ index >= Len(array.child) THEN NoItem
    ELSE array.child[index + 1]

cJSON_GetArraySize(array) ==
    IF IsNoItem(array) THEN 0
    ELSE IF array.type # "Array" THEN 0
    ELSE Len(array.child)

\* the loop adding one {name, type} object per column
RECURSIVE SaveColumns(_, _, _)
SaveColumns(t, i, columnsArray) ==
    IF i > t.numColumns
    THEN columnsArray
    ELSE LET col == cJSON_AddItemToObject(
                        cJSON_AddItemToObject(cJSON_CreateObject, "name",
                                              cJSON_CreateString(t.columns[i].name)),
                        "type", cJSON_CreateNumber(t.columns[i].type))
         IN  SaveColumns(t, i + 1, cJSON_AddItemToArray(columnsArray, col))

\* the loop adding one member per column to a record object; the union is read
\* by the kind of the column
RECURSIVE SaveCells(_, _, _, _)
SaveCells(t, cells, i, record) ==
    IF i > t.numColumns
    THEN record
    ELSE SaveCells(t, cells, i + 1,
             cJSON_AddItemToObject(record, t.columns[i].name,
                 IF t.columns[i].type = 1
                 THEN cJSON_CreateNumber(cells[i].int_val)
                 ELSE cJSON_CreateString(cells[i].str_val)))

\* the walk over the list adding one object per row
RECURSIVE SaveRecords(_, _, _, _)
SaveRecords(t, h, current, recordsArray) ==
    IF current = NULL
    THEN recordsArray
    ELSE SaveRecords(t, h, h[current].next,
             cJSON_AddItemToArray(recordsArray,
                 SaveCells(t, h[current].cells, 1, cJSON_CreateObject)))

\* the file saveTableToJson leaves: the text cJSON_Print makes of the tree,
\* held as the tree cJSON_Parse makes of that text
saveTableToJson(t, h) ==
    LET r1 == cJSON_AddItemToObject(cJSON_CreateObject, "numColumns",
                                    cJSON_CreateNumber(t.numColumns))
        r2 == cJSON_AddItemToObject(r1, "columns", SaveColumns(t, 1, cJSON_CreateArray))
        r3 == cJSON_AddItemToObject(r2, "records",
                                    SaveRecords(t, h, t.head, cJSON_CreateArray))
    IN  [kind |-> "json", root |-> r3]

\* a file whose text cJSON_Parse rejects
Unparseable == [kind |-> "text"]

\* what a call of loadTableFromJson can end in
ReturnsNull == [kind |-> "null"]

ReturnsTable(t, h) == [kind |-> "table", table |-> t, heap |-> h]

\* a read through a NULL pointer, or _strdup(NULL): undefined behaviour.  The
\* call may end the process, or go on and end in any way, failing included.
Undefined == {[kind |-> "crash"], ReturnsNull}

\* what stands for a value whose computation read through NULL
Trap == [trap |-> TRUE]

IsTrap(x) == "trap" \in DOMAIN x

\* the column definition read from the i-th element of "columns" (valuestring
\* is NULL in every item that is not a string)
LoadColumn(columnsArray, i) ==
    LET col  == cJSON_GetArrayItem(columnsArray, i - 1)
        name == cJSON_GetObjectItemCaseSensitive(col, "name")
        type == cJSON_GetObjectItemCaseSensitive(col, "type")
    IN  IF IsNoItem(name) THEN Trap
        ELSE IF name.type # "String" THEN Trap
        ELSE IF IsNoItem(type) THEN Trap
        ELSE [name |-> name.valuestring, type |-> type.valueint]

\* the cell read for column j of a record object
LoadCell(t, record, j) ==
    LET value == cJSON_GetObjectItemCaseSensitive(record, t.columns[j].name)
    IN  IF IsNoItem(value) THEN Trap
        ELSE IF t.columns[j].type = 1 THEN IntCell(value.valueint)
        ELSE IF value.type # "String" THEN Trap
        ELSE StrCell(value.valuestring)

loadTableFromJson(f) ==
    IF f.kind = "none" THEN {ReturnsNull}
    ELSE IF f.kind = "text" THEN {ReturnsNull}
    ELSE
    LET numColumnsItem == cJSON_GetObjectItemCaseSensitive(f.root, "numColumns")
    IN  IF IsNoItem(numColumnsItem) THEN Undefined
        ELSE
        LET numColumns   == numColumnsItem.valueint
            columnsArray == cJSON_GetObjectItemCaseSensitive(f.root, "columns")
            columns      == [i \in 1..numColumns |-> LoadColumn(columnsArray, i)]
        IN  IF \E i \in 1..numColumns : IsTrap(columns[i]) THEN Undefined
            ELSE
            LET t            == createTable(numColumns, columns)
                recordsArray == cJSON_GetObjectItemCaseSensitive(f.root, "records")
                count        == cJSON_GetArraySize(recordsArray)
                rows         == [i \in 1..count |->
                                    [j \in 1..numColumns |->
                                        LoadCell(t, cJSON_GetArrayItem(recordsArray, i - 1), j)]]
            IN  IF \E i \in 1..count, j \in 1..numColumns : IsTrap(rows[i][j])
                THEN Undefined
                ELSE LET s == AddAll(t, [id \in NodeIds |-> FreeNode], rows, 1)
                     IN  {ReturnsTable(s.table, s.heap)}

\* the schemas typed at Create: one column, two columns of different names,
\* and two columns of one name (of one kind, and of both kinds)
JsonSchemas ==
    {<< [name |-> "a", type |-> TypeInt] >>,
     << [name |-> "a", type |-> TypeInt], [name |-> "b", type |-> TypeStr] >>,
     << [name |-> "a", type |-> TypeInt], [name |-> "a", type |-> TypeInt] >>,
     << [name |-> "a", type |-> TypeStr], [name |-> "a", type |-> TypeInt] >>}

\* the cells typed at Append: readLine always hands over a string, never NULL
JsonCells == {IntCell(1), IntCell(IntMax), StrCell(<<>>), StrCell(<<1>>)}

JsonRows(columns) ==
    {cells \in [1..Len(columns) -> JsonCells] :
        \A i \in 1..Len(columns) : cells[i].type = columns[i].type}

\* a table that Create and up to MaxRows Append commands have filled; nothing
\* saved yet
InitJson ==
    /\ \E columns \in JsonSchemas :
       \E n \in 0..MaxRows :
       \E rows \in [1..n -> JsonRows(columns)] :
          LET s == AddAll(createTable(Len(columns), columns),
                          [id \in NodeIds |-> FreeNode], rows, 1)
          IN  /\ table = s.table
              /\ heap = s.heap
              /\ ret = [op |-> IF n = 0 THEN "create" ELSE "add", val |-> s.table.tail, msg |-> 0]
    /\ root = AvlNull
    /\ cmd = AtMenu
    /\ file = NoFile

\* the process has ended inside loadTableFromJson
Crashed == ret.op = "load" /\ ret.msg = "crash"

\* menu command Save
SaveTable ==
    /\ ~Crashed
    /\ file' = saveTableToJson(table, heap)
    /\ ret' = [op |-> "save", val |-> 0, msg |-> "Saved"]
    /\ UNCHANGED <<table, heap, root, cmd>>

\* Load freeing the active table before looking at what loadTableFromJson returned
LoadTableFreesFirst ==
    /\ ~Crashed
    /\ \E out \in loadTableFromJson(file) :
          IF out.kind = "table"
          THEN /\ table' = out.table
               /\ heap' = out.heap
               /\ ret' = [op |-> "load", val |-> 1, msg |-> "Loaded."]
          ELSE /\ ret' = [op |-> "load", val |-> 0,
                          msg |-> IF out.kind = "null" THEN "Load failed." ELSE "crash"]
               /\ table' = [table EXCEPT !.head = NULL, !.tail = NULL, !.rowCount = 0]
               /\ heap' = [id \in NodeIds |-> FreeNode]
    /\ UNCHANGED <<root, cmd, file>>

\* menu command Load: the loaded table replaces the old one, whose nodes are
\* freed; "Load failed." leaves the old table
LoadTable ==
    /\ ~Crashed
    /\ \E out \in loadTableFromJson(file) :
          IF out.kind = "table"
          THEN /\ table' = out.table
               /\ heap' = out.heap
               /\ ret' = [op |-> "load", val |-> 1, msg |-> "Loaded."]
          ELSE /\ ret' = [op |-> "load", val |-> 0,
                          msg |-> IF out.kind = "null" THEN "Load failed." ELSE "crash"]
               /\ UNCHANGED <<table, heap>>
    /\ UNCHANGED <<root, cmd, file>>

\* an object without its members of that name
WithoutMember(object, name) ==
    LET Other(m) == m.string # name
    IN  [object EXCEPT !.child = SelectSeq(@, Other)]

\* an object with the item of its first member of that name replaced
WithMember(object, name, item) ==
    LET first == CHOOSE i \in 1..Len(object.child) :
                    /\ object.child[i].string = name
                    /\ \A k \in 1..(i - 1) : object.child[k].string # name
    IN  [object EXCEPT !.child[first].item = item]

\* an array with its first element replaced
WithFirst(array, item) == [array EXCEPT !.child[1] = item]

\* what is missing from a file
Fields == {"numColumns", "columns", "name", "type", "records", "value"}

\* the saved tree with one required field taken out: a member of the root, a
\* member of the first column object, or the first member of the first record
FileWithout(root0, field) ==
    LET columnsArray == cJSON_GetObjectItemCaseSensitive(root0, "columns")
        recordsArray == cJSON_GetObjectItemCaseSensitive(root0, "records")
    IN  IF field \in {"numColumns", "columns", "records"}
        THEN WithoutMember(root0, field)
        ELSE IF field \in {"name", "type"}
        THEN WithMember(root0, "columns",
                 WithFirst(columnsArray, WithoutMember(columnsArray.child[1], field)))
        ELSE LET record == recordsArray.child[1]
             IN  WithMember(root0, "records",
                     WithFirst(recordsArray, WithoutMember(record, record.child[1].string)))

\* the file a Save has left is edited outside the program: a field is removed
RemoveField(field) ==
    /\ ~Crashed
    /\ file = saveTableToJson(table, heap)
    /\ field = "value" => table.rowCount > 0
    /\ file' = [kind |-> "json", root |-> FileWithout(file.root, field)]
    /\ UNCHANGED <<table, heap, root, ret, cmd>>

\* the file is overwritten with text that is not JSON
Garble ==
    /\ ~Crashed
    /\ file.kind = "json"
    /\ file' = Unparseable
    /\ UNCHANGED <<table, heap, root, ret, cmd>>

NextJson ==
    \/ SaveTable
    \/ LoadTable
    \/ \E field \in Fields : RemoveField(field)
    \/ Garble

SpecJson == InitJson /\ [][NextJson]_vars

(* --------------------------- the command loop -------------------------- *)

\* control is at the menu prompt: no command is running
Idle == cmd.pc = "menu"

\* the rows typed at Append and Update in the command loop
MainRows == {<<IntCell(1), StrCell(<<1>>)>>, <<IntCell(2), StrCell(<<1>>)>>}

\* the numbers typed at "Enter value:" and "Enter N:" in the command loop
MainArgs == {0, 2}

\* the file named at Load: absent, or left by an earlier Save of a two-row table
MainFiles ==
    {NoFile} \cup
    {LET s == AddAll(createTable(Len(columns), columns), [id \in NodeIds |-> FreeNode],
                     <<<<IntCell(2), StrCell(<<1>>)>>, <<IntCell(1), StrCell(<<1>>)>>>>, 1)
     IN  saveTableToJson(s.table, s.heap) : columns \in Schemas}

InitMain ==
    /\ \E columns \in Schemas : table = createTable(Len(columns), columns)
    /\ heap = [id \in NodeIds |-> FreeNode]
    /\ root = AvlNull
    /\ ret = [op |-> "create", val |-> 0, msg |-> 0]
    /\ cmd = AtMenu
    /\ file \in MainFiles

\* menu command Create: the old table is freed and a new one made
CreateTable(columns) ==
    /\ table' = createTable(Len(columns), columns)
    /\ heap' = [id \in NodeIds |-> FreeNode]
    /\ ret' = [op |-> "create", val |-> 0, msg |-> 0]
    /\ UNCHANGED <<root, cmd, file>>

NextMain ==
    \/ \E cells \in MainRows : Idle /\ AddRecord(cells)
    \/ \E rowNum \in Positions : Idle /\ DeleteRecord(rowNum)
    \/ \E rowNum \in Positions, cells \in MainRows : Idle /\ UpdateRecord(rowNum, cells)
    \/ \E columns \in Schemas : Idle /\ CreateTable(columns)
    \/ Idle /\ LoadTable
    \/ \E colIndex \in 0..(table.numColumns + 1), cond \in Conds \ {6}, val \in MainArgs :
          SearchBegin(colIndex, cond, val, <<>>)
    \/ \E colIndex \in 0..(table.numColumns + 1), substr \in SubStrs :
          SearchBegin(colIndex, 6, 0, substr)
    \/ SearchEnd

SpecMain == InitMain /\ [][NextMain]_vars

(* ------------------- notions the properties are stated in -------------- *)

\* the height of a subtree counted on the tree itself, not read from a field
RECURSIVE TrueHeight(_)
TrueHeight(node) ==
    IF IsNull(node)
    THEN 0
    ELSE LET l == TrueHeight(node.left)
             r == TrueHeight(node.right)
         IN  1 + (IF l > r THEN l ELSE r)

\* every node of a tree, each with the subtree below it
RECURSIVE Subtrees(_)
Subtrees(node) ==
    IF IsNull(node) THEN {} ELSE {node} \cup Subtrees(node.left) \cup Subtrees(node.right)

\* the nodes in left-root-right order
RECURSIVE InOrder(_)
InOrder(node) ==
    IF IsNull(node) THEN <<>> ELSE InOrder(node.left) \o <<node>> \o InOrder(node.right)

\* key order of two nodes of one tree: numeric for Integer keys, byte-wise
\* lexicographic for Text keys
RECURSIVE LexLess(_, _)
LexLess(a, b) ==
    IF b = <<>> THEN FALSE
    ELSE IF a = <<>> THEN TRUE
    ELSE IF a[1] # b[1] THEN a[1] < b[1]
    ELSE LexLess(SubSeq(a, 2, Len(a)), SubSeq(b, 2, Len(b)))

KeyLess(m, n) ==
    IF m.keyType = 1 THEN m.intKey < n.intKey ELSE LexLess(m.strKey, n.strKey)

\* the rows of the table in list order, as node ids (at most fuel of them)
RECURSIVE ListFrom(_, _, _)
ListFrom(h, cur, fuel) ==
    IF cur = NULL \/ fuel = 0
    THEN <<>>
    ELSE <<cur>> \o ListFrom(h, h[cur].next, fuel - 1)

RowIds(t, h) == ListFrom(h, t.head, Cardinality(NodeIds) + 1)

\* a sequence without its p-th element
RemoveAt(seq, p) == SubSeq(seq, 1, p - 1) \o SubSeq(seq, p + 1, Len(seq))

(* ------------------------------ C1 .. C4 ------------------------------- *)

\* C1: after any sequence of insertions into an initially empty index
\* (Integer or Text keys, repeated keys included) the true heights of the two
\* subtrees of every node differ by at most 1.
C1_Balanced ==
    \A n \in Subtrees(root) :
        LET d == TrueHeight(n.left) - TrueHeight(n.right)
        IN  d <= 1 /\ 0 - d <= 1

\* an insertion of an Integer key has just rotated at the root of a tree of
\* height 3 or more
C1_Witness ==
    /\ ret.op = "insertInt"
    /\ ret.val = 1
    /\ TrueHeight(root) >= 3

\* C2: after any sequence of insertions the height field of every node is
\* 1 + the larger of its children's height fields, an absent child counting 0
\* (so a leaf has height 1).
C2_HeightField ==
    \A n \in Subtrees(root) :
        LET l == IF IsNull(n.left) THEN 0 ELSE n.left.height
            r == IF IsNull(n.right) THEN 0 ELSE n.right.height
        IN  n.height = 1 + (IF l > r THEN l ELSE r)

\* an insertion of a Text key has just rotated at the root of a tree whose
\* root is 3 or more high
C2_Witness ==
    /\ ret.op = "insertStr"
    /\ ret.val = 1
    /\ root.height >= 3

\* C3: after any sequence of insertions the tree is a binary search tree with
\* distinct keys: below every node the left keys are smaller and the right keys
\* larger, and the in-order key sequence is strictly ascending.
C3_SearchTree ==
    /\ \A n \in Subtrees(root) :
          /\ \A m \in Subtrees(n.left) : KeyLess(m, n)
          /\ \A m \in Subtrees(n.right) : KeyLess(n, m)
    /\ LET io == InOrder(root)
       IN  \A i \in 1..(Len(io) - 1) : KeyLess(io[i], io[i + 1])

\* every Integer key on offer is in the tree
C3_Witness ==
    /\ ret.op = "insertInt"
    /\ Cardinality(Subtrees(root)) = Cardinality(IntKeys)

\* the key of the row with node id in the indexed column
KeyOfRow(h, id, colIndex) ==
    IF h[id].cells[colIndex].type = 1
    THEN h[id].cells[colIndex].int_val
    ELSE h[id].cells[colIndex].str_val

KeyOfNode(n) == IF n.keyType = 1 THEN n.intKey ELSE n.strKey

\* C4: inserting a key that is already in the tree leaves the tree as it is,
\* and in an index built by buildAVLIndex the node of a key references the row
\* with the lowest position among the rows holding that key in the column.
C4_FirstRowKept ==
    (ret.op = "build" /\ ret.val \in 1..table.numColumns) =>
        LET ids == RowIds(table, heap)
        IN  \A n \in Subtrees(root) :
               /\ \A r \in NodeIds \cup {NULL} :
                     IF n.keyType = 1
                     THEN insertAVLInt(root, n.intKey, r) = root
                     ELSE insertAVLStr(root, n.strKey, r) = root
               /\ \E p \in 1..Len(ids) :
                     /\ n.record = ids[p]
                     /\ KeyOfRow(heap, ids[p], ret.val) = KeyOfNode(n)
                     /\ \A q \in 1..(p - 1) :
                           KeyOfRow(heap, ids[q], ret.val) # KeyOfNode(n)

\* an index was built over a column in which a key occurs in more than one row
C4_Witness ==
    /\ ret.op = "build"
    /\ ret.val \in 1..table.numColumns
    /\ Cardinality(Subtrees(root)) >= 2
    /\ Cardinality(Subtrees(root)) < table.rowCount

(* ------------------------------ C5 .. C10 ------------------------------ *)

\* the kind and value a cell holds; a NULL string pointer is stored as ""
CellValue(c) ==
    IF c.type = 1
    THEN [type |-> 1, value |-> c.int_val]
    ELSE [type |-> c.type, value |-> IF c.str_val = NullStr THEN <<>> ELSE c.str_val]

RowValue(cells) == [i \in DOMAIN cells |-> CellValue(cells[i])]

\* the supplied row has, in every column, the kind the schema declares
KindsMatch(t, cells) ==
    /\ cells # NullCells
    /\ \A i \in 1..t.numColumns : cells[i].type = t.columns[i].type

\* the table (rows, order, head, tail, rowCount) is as it was
TableUntouched == table' = table /\ heap' = heap

\* C5: a successful addRecord on a table of length n makes the length n+1,
\* makes getRecordByRowNum(n+1) the new row, and leaves rows 1..n in place with
\* their contents; so the last position always holds the most recent append.
C5_Append ==
    [][\A cells \in RowInputs :
          (ret'.op = "add" /\ KindsMatch(table, cells) /\ AddRecord(cells)) =>
              LET n    == table.rowCount
                  ids  == RowIds(table, heap)
              IN  /\ ret'.val # NULL
                  /\ table'.rowCount = n + 1
                  /\ getRecordByRowNum(table', heap', n + 1) = ret'.val
                  /\ getRecordByRowNum(table', heap', table'.rowCount) = ret'.val
                  /\ RowIds(table', heap') = Append(ids, ret'.val)
                  /\ RowValue(heap'[ret'.val].cells) = RowValue(cells)
                  /\ \A q \in 1..n :
                        /\ getRecordByRowNum(table', heap', q) = ids[q]
                        /\ getRecordByRowNum(table, heap, q) = ids[q]
                        /\ heap'[ids[q]].cells = heap[ids[q]].cells]_vars

\* a row was appended to a table that already held rows
C5_Witness ==
    /\ ret.op = "add"
    /\ ret.val # NULL
    /\ table.rowCount >= 2
    /\ getRecordByRowNum(table, heap, table.rowCount) = ret.val

\* C6: on a table of length n, deleteRecordByRowNum(p) with 1 <= p <= n returns
\* 1, the length becomes n-1, the rows before p stay, every row after p moves up
\* by one, and getRecordByRowNum(p) is then the former row p+1, or NULL if p = n.
C6_Delete ==
    [][\A p \in Positions :
          (ret'.op = "delete" /\ p >= 1 /\ p <= table.rowCount /\ DeleteRecord(p)) =>
              LET n    == table.rowCount
                  ids  == RowIds(table, heap)
              IN  /\ ret'.val = 1
                  /\ table'.rowCount = n - 1
                  /\ RowIds(table', heap') = RemoveAt(ids, p)
                  /\ \A q \in 1..(p - 1) :
                        /\ getRecordByRowNum(table', heap', q) = ids[q]
                        /\ heap'[ids[q]].cells = heap[ids[q]].cells
                  /\ \A q \in (p + 1)..n :
                        /\ getRecordByRowNum(table', heap', q - 1) = ids[q]
                        /\ heap'[ids[q]].cells = heap[ids[q]].cells
                  /\ getRecordByRowNum(table', heap', p) =
                        (IF p = n THEN NULL ELSE getRecordByRowNum(table, heap, p + 1))]_vars

\* a row was deleted and at least two rows remain
C6_Witness ==
    /\ ret.op = "delete"
    /\ ret.val = 1
    /\ table.rowCount >= 2

\* a call left the table (rows, order, head, tail, rowCount) as it found it
Refused(r, val) == r.val = val /\ r.table = table /\ r.heap = heap

\* C7: with a row number outside [1, length], deleteRecordByRowNum and
\* updateRecordByRowNum return 0 and getRecordByRowNum returns NULL, and the
\* table is unchanged.
C7_OutOfRange ==
    \A p \in Positions :
        (p < 1 \/ p > table.rowCount) =>
            /\ Refused(deleteRecordByRowNum(table, heap, p), 0)
            /\ \A cells \in RowInputs :
                  Refused(updateRecordByRowNum(table, heap, p, cells), 0)
            /\ getRecordByRowNum(table, heap, p) = NULL

\* a delete was refused on a table that holds rows
C7_Witness ==
    /\ ret.op = "delete"
    /\ ret.val = 0
    /\ table.rowCount >= 1

\* C8: if some cell of the supplied row has another kind than its column,
\* addRecord returns NULL and updateRecordByRowNum returns 0 and the table is
\* exactly as before, also when the first column's kind is right.
C8_SchemaMismatch ==
    \A cells \in RowInputs \ {NullCells} :
        (~KindsMatch(table, cells)) =>
            /\ \A newNode \in NodeIds :
                  Refused(addRecord(table, heap, cells, newNode), NULL)
            /\ \A p \in Positions :
                  Refused(updateRecordByRowNum(table, heap, p, cells), 0)

\* an update of an existing row was refused for the kind of its second column
C8_Witness ==
    /\ ret.op = "update"
    /\ ret.val = 0
    /\ ret.msg = 2

\* C9: every stored row has in every column a cell of the kind the schema
\* declares for that column, whatever calls came before.
C9_KindsMatchSchema ==
    LET ids == RowIds(table, heap)
    IN  \A p \in 1..Len(ids) :
           /\ ~IsFree(heap[ids[p]])
           /\ DOMAIN heap[ids[p]].cells = 1..table.numColumns
           /\ \A i \in 1..table.numColumns :
                 heap[ids[p]].cells[i].type = table.columns[i].type

\* an append was refused for the kind of its first column on a table with rows
C9_Witness ==
    /\ ret.op = "add"
    /\ ret.val = NULL
    /\ ret.msg = 1
    /\ table.rowCount >= 2

\* C10: a successful updateRecordByRowNum(p, newRow) replaces only the cells of
\* the row at position p: same node at the same position, same length, head,
\* tail and order, and every other row as it was.
C10_UpdateInPlace ==
    \A p \in Positions, cells \in RowInputs :
        (p >= 1 /\ p <= table.rowCount /\ KindsMatch(table, cells)) =>
            LET ids == RowIds(table, heap)
                r   == updateRecordByRowNum(table, heap, p, cells)
            IN  /\ r.val = 1
                /\ r.table = table
                /\ RowIds(r.table, r.heap) = ids
                /\ getRecordByRowNum(r.table, r.heap, p) = ids[p]
                /\ RowValue(r.heap[ids[p]].cells) = RowValue(cells)
                /\ r.heap[ids[p]].next = heap[ids[p]].next
                /\ \A id \in NodeIds : id # ids[p] => r.heap[id] = heap[id]

\* a row of a table with several rows was updated
C10_Witness ==
    /\ ret.op = "update"
    /\ ret.val = 1
    /\ table.rowCount >= 2

(* ------------------------------ C11 .. C15 ----------------------------- *)

\* the rows a result set names
RowSet(sr) == {sr.records[i] : i \in 1..sr.count}

\* no two rows of the table hold the same value in the column
DistinctValues(t, h, colIndex) ==
    LET ids == RowIds(t, h)
    IN  \A i, j \in 1..Len(ids) :
            i # j => KeyOfRow(h, ids[i], colIndex) # KeyOfRow(h, ids[j], colIndex)

\* the Search command has just finished branch cond and printed its results
Searched(cond) == ret.op = "search" /\ ret.msg = "Results" /\ ret.val.cond = cond

\* C11: on an Integer column with pairwise distinct values, for every v the rows
\* linearFindGE(v) returns are the rows avlFindGE(v) returns on an index built
\* from the same table, and likewise for LE; with duplicates the index result
\* never has more entries than the linear one.
C11_RangeAgree ==
    (Searched(4) \/ Searched(5)) =>
        /\ ret.val.res2.count <= ret.val.res1.count
        /\ DistinctValues(table, heap, ret.val.colIndex) =>
              /\ RowSet(ret.val.res1) = RowSet(ret.val.res2)
              /\ ret.val.res1.count = ret.val.res2.count

\* a >= search over three rows with distinct values matched two of them
C11_Witness ==
    /\ Searched(4)
    /\ table.rowCount = 3
    /\ DistinctValues(table, heap, ret.val.colIndex)
    /\ ret.val.res1.count = 2

\* the rows of the table, in list order, that hold value in the column
RowsEqual(t, h, colIndex, value) ==
    LET Holds(id) == KeyOfRow(h, id, colIndex) = value
    IN  SelectSeq(RowIds(t, h), Holds)

\* C12: linearFindEqual(v) returns every row whose value is v, one entry per
\* row; avlFindEqual(v) on an index built from the same table returns at most
\* one node, and returns a node, whose key is v, exactly when at least one row
\* holds v.
C12_Equal ==
    Searched(3) =>
        LET rows == RowsEqual(table, heap, ret.val.colIndex, ret.val.val)
            sr1  == ret.val.res1
            r2   == ret.val.res2
        IN  /\ sr1.records = rows
            /\ sr1.count = Len(rows)
            /\ IsNull(r2) <=> rows = <<>>
            /\ ~IsNull(r2) => r2.intKey = ret.val.val

\* an = search found two rows holding the value, and the index found its node
C12_Witness ==
    /\ Searched(3)
    /\ ret.val.res1.count = 2
    /\ table.rowCount = 3
    /\ ~IsNull(ret.val.res2)

\* C13: a search predicate issued against a column of the wrong kind (Integer
\* equality, >=, <=, TopN, BottomN, MAX or MIN on a Text column; substring or
\* string equality on an Integer column) does not return an empty result set:
\* its outcome differs from that of a search that found no match (for MAX and
\* MIN, from the NULL returned when there is no row).
C13_WrongKindFails ==
    table.rowCount > 0 =>
        \A colIndex \in 1..table.numColumns :
            IF table.columns[colIndex].type = 2
            THEN /\ linearFindMax(table, heap, colIndex).rec # NULL
                 /\ linearFindMin(table, heap, colIndex).rec # NULL
                 /\ \A v \in SearchArgs :
                       /\ linearFindEqual(table, heap, colIndex, v).count # 0
                       /\ linearFindGE(table, heap, colIndex, v).count # 0
                       /\ linearFindLE(table, heap, colIndex, v).count # 0
                       /\ v > 0 => \A sr \in linearFindTopN(table, heap, colIndex, v)
                                           \cup linearFindBottomN(table, heap, colIndex, v) :
                                       sr.count # 0
            ELSE \A s \in SubStrs :
                    /\ linearFindContains(table, heap, colIndex, s).count # 0
                    /\ linearFindStrEqual(table, heap, colIndex, s).count # 0

\* every entry of the result set pairs a row with the position it has now
PositionsRight(sr) ==
    \A i \in 1..sr.count :
        getRecordByRowNum(table, heap, sr.rowNums[i]) = sr.records[i]

\* every entry of the result set carries position 0
PositionsUnknown(sr) == \A i \in 1..sr.count : sr.rowNums[i] = 0

\* the branches of Search whose linear result is a result set, and those whose
\* index result is one
LinearSetConds == {3, 4, 5, 6, 7, 8}

IndexSetConds == {4, 5, 7, 8}

\* C14 as stated: every entry of a result set, from the linear path or the
\* index-assisted one, carries the 1-based position the row had when scanned,
\* so that getRecordByRowNum(position) returns that row.
C14_PositionsAll ==
    (ret.op = "search" /\ ret.msg = "Results") =>
        /\ ret.val.cond \in LinearSetConds => PositionsRight(ret.val.res1)
        /\ ret.val.cond \in IndexSetConds => PositionsRight(ret.val.res2)

\* C14 amended: every entry of a result set from a linear search carries the
\* 1-based position the row had when scanned (getRecordByRowNum(position)
\* returns that row); every entry of a result set from an index-assisted
\* search (avlFindGE, avlFindLE, avlFindTopN, avlFindBottomN) carries position
\* 0, which stands for "unknown".
C14_PositionsLinear ==
    (ret.op = "search" /\ ret.msg = "Results") =>
        /\ ret.val.cond \in LinearSetConds => PositionsRight(ret.val.res1)
        /\ ret.val.cond \in IndexSetConds => PositionsUnknown(ret.val.res2)

\* a >= search matched the last two of three rows, on both paths
C14_Witness ==
    /\ Searched(4)
    /\ table.rowCount = 3
    /\ ret.val.res1.rowNums = <<2, 3>>
    /\ ret.val.res2.count = 2

\* C15: on a non-empty table and an Integer column, linearFindMax (linearFindMin)
\* returns exactly one row, holding the maximum (minimum) value of the column,
\* with its 1-based position, the lowest such position on ties; on an empty
\* table it returns no row.
C15_Extremum ==
    /\ (Searched(1) \/ Searched(2)) =>
          LET ids == RowIds(table, heap)
              c   == ret.val.colIndex
              r1  == ret.val.res1
              v   == KeyOfRow(heap, r1.rec, c)
          IN  /\ r1.rec # NULL
              /\ r1.rowNum \in 1..Len(ids)
              /\ ids[r1.rowNum] = r1.rec
              /\ \A p \in 1..Len(ids) :
                    LET w == KeyOfRow(heap, ids[p], c)
                    IN  IF ret.val.cond = 1
                        THEN w <= v /\ (p < r1.rowNum => w < v)
                        ELSE w >= v /\ (p < r1.rowNum => w > v)
    /\ table.rowCount = 0 =>
          \A c \in 1..table.numColumns :
              /\ linearFindMax(table, heap, c).rec = NULL
              /\ linearFindMin(table, heap, c).rec = NULL

\* a MAX search over three rows returned the second row, whose value the third
\* row holds as well
C15_Witness ==
    /\ Searched(1)
    /\ table.rowCount = 3
    /\ ret.val.res1.rowNum = 2
    /\ LET ids == RowIds(table, heap)
       IN  KeyOfRow(heap, ids[3], ret.val.colIndex) = KeyOfRow(heap, ids[2], ret.val.colIndex)

(* ------------------------------ C16 .. C17 ----------------------------- *)

\* what a table holds: the columns in order, the row count, the rows in order
Contents(t, h) ==
    LET ids == RowIds(t, h)
    IN  [columns  |-> t.columns,
         rowCount |-> t.rowCount,
         rows     |-> [i \in 1..Len(ids) |-> RowValue(h[ids[i]].cells)]]

\* C16: for every table the store can hold (any rows, none included, any
\* column names and kinds), saving it and loading the file yields a table with
\* the same column names, kinds and order, the same row count, and the same
\* cell contents in the same order.
C16_RoundTrip ==
    [][(ret'.op = "load" /\ file = saveTableToJson(table, heap) /\ LoadTable) =>
          /\ ret'.msg = "Loaded."
          /\ Contents(table', heap') = Contents(table, heap)]_vars

\* a required field is absent from the tree: numColumns, columns, a column's
\* name or type, records, or a record's value for some column
MissingField(root0) ==
    LET numColumns   == cJSON_GetObjectItemCaseSensitive(root0, "numColumns")
        columnsArray == cJSON_GetObjectItemCaseSensitive(root0, "columns")
        recordsArray == cJSON_GetObjectItemCaseSensitive(root0, "records")
    IN  \/ IsNoItem(numColumns)
        \/ IsNoItem(columnsArray)
        \/ IsNoItem(recordsArray)
        \/ \E i \in 1..cJSON_GetArraySize(columnsArray) :
              LET col == cJSON_GetArrayItem(columnsArray, i - 1)
              IN  \/ IsNoItem(cJSON_GetObjectItemCaseSensitive(col, "name"))
                  \/ IsNoItem(cJSON_GetObjectItemCaseSensitive(col, "type"))
                  \/ \E k \in 1..cJSON_GetArraySize(recordsArray) :
                        IsNoItem(cJSON_GetObjectItemCaseSensitive(
                            cJSON_GetArrayItem(recordsArray, k - 1),
                            cJSON_GetObjectItemCaseSensitive(col, "name").valuestring))

\* C17: when the file is unparseable or lacks a required field (numColumns,
\* columns, a column's name or type, records, or a record's value),
\* loadTableFromJson returns no table: the load fails, and never ends in any
\* other way.
C17_MalformedFails ==
    [][(/\ ret'.op = "load"
        /\ IF file.kind = "json" THEN MissingField(file.root) ELSE file.kind = "text"
        /\ LoadTable) =>
          /\ ret'.msg = "Load failed."
          /\ TableUntouched]_vars

(* ------------------------------ C18 .. C20 ----------------------------- *)

\* C18: building an index over a column, querying it and releasing it leave
\* the table as it was: same rows in the same order with the same contents,
\* same head, tail and row count; freeAVL releases tree nodes only, no row.
C18_IndexLeavesTable ==
    [][(ret'.op = "build" \/ ret'.op = "search") => TableUntouched]_vars

\* a <= search over three rows has built its index, found all three rows in
\* it and released it
C18_Witness ==
    /\ Searched(5)
    /\ table.rowCount = 3
    /\ ret.val.res2.count = 3
    /\ IsNull(root)

\* C19: every index the Search command builds is released before the command
\* ends, on every branch (MAX, MIN, =, >=, <=, TOP N, BOTTOM N, invalid input):
\* no index exists when control is back at the menu, and none while an Append,
\* Delete, Update, Create or Load changes the table.
C19_IndexReleased ==
    /\ [](Idle => IsNull(root))
    /\ [][(table' # table \/ heap' # heap) => (IsNull(root) /\ IsNull(root'))]_vars

\* control is back at the menu after a TOP N search over a table of three rows
\* that built an index, and the index is gone
C19_Witness ==
    /\ Idle
    /\ Searched(7)
    /\ ret.val.res2.count = 2
    /\ table.rowCount = 3
    /\ IsNull(root)

\* the values, in result order, of the rows a result set names
ValuesOf(sr, colIndex) == [i \in 1..sr.count |-> KeyOfRow(heap, sr.records[i], colIndex)]

\* C20: for every non-empty table, every n > 0 and any 32-bit signed values
\* (values whose difference does not fit in 32 bits included), linearFindTopN
\* returns exactly min(n, length) entries in non-increasing order of value, and
\* no row left out has a value greater than a returned one; linearFindBottomN
\* likewise with non-decreasing order and no smaller value left out.
C20_TopBottomN ==
    (Searched(7) \/ Searched(8)) =>
        LET sr   == ret.val.res1
            c    == ret.val.colIndex
            n    == ret.val.val
            vals == ValuesOf(sr, c)
            out  == {id \in NodeIds : ~IsFree(heap[id])} \ RowSet(sr)
        IN  /\ sr.count = IF n < table.rowCount THEN n ELSE table.rowCount
            /\ Cardinality(RowSet(sr)) = sr.count
            /\ \A i \in 1..(sr.count - 1) :
                  IF ret.val.cond = 7 THEN vals[i] >= vals[i + 1] ELSE vals[i] <= vals[i + 1]
            /\ \A id \in out : \A i \in 1..sr.count :
                  IF ret.val.cond = 7
                  THEN KeyOfRow(heap, id, c) <= vals[i]
                  ELSE KeyOfRow(heap, id, c) >= vals[i]

(* ----------------------- the Delete command (case 4) ------------------- *)

\* interactiveSearch returning NULL
NoSr == [records |-> <<>>, rowNums |-> <<>>, count |-> 0, capacity |-> 0]

IsNoSr(sr) == sr.capacity = 0

\* the MAX / MIN branches of interactiveSearch: a result set only if a row was found
SingleResult(found) ==
    IF found.rec = NULL
    THEN NoSr
    ELSE addToResultWithRowNum(createSearchResult, found.rec, found.rowNum)

\* the result sets interactiveSearch can return; colIdx counts the columns
\* from 0 as typed, val and str are what is typed at the value prompt
interactiveSearch(t, h, colIdx, cond, val, str) ==
    IF t.rowCount = 0
    THEN {NoSr}
    ELSE IF colIdx < 0 \/ colIdx >= t.numColumns
    THEN {NoSr}
    ELSE LET colIndex == colIdx + 1
             type     == t.columns[colIndex].type
         IN  IF cond = 1 /\ type = 1 THEN {SingleResult(linearFindMax(t, h, colIndex))}
             ELSE IF cond = 2 /\ type = 1 THEN {SingleResult(linearFindMin(t, h, colIndex))}
             ELSE IF cond = 3 /\ type = 1 THEN {linearFindEqual(t, h, colIndex, val)}
             ELSE IF cond = 3 /\ type = 2 THEN {linearFindStrEqual(t, h, colIndex, str)}
             ELSE IF cond = 4 /\ type = 1 THEN {linearFindGE(t, h, colIndex, val)}
             ELSE IF cond = 5 /\ type = 1 THEN {linearFindLE(t, h, colIndex, val)}
             ELSE IF cond = 6 /\ type = 2 THEN {linearFindContains(t, h, colIndex, str)}
             ELSE IF cond = 7 /\ type = 1
                  THEN (IF val > 0 THEN linearFindTopN(t, h, colIndex, val) ELSE {NoSr})
             ELSE IF cond = 8 /\ type = 1
                  THEN (IF val > 0 THEN linearFindBottomN(t, h, colIndex, val) ELSE {NoSr})
             ELSE {NoSr}

\* the inner loop of the bubble sort swapping towards ascending order
RECURSIVE BubbleInnerAscending(_, _, _)
BubbleInnerAscending(rowsToDelete, j, last) ==
    IF j > last
    THEN rowsToDelete
    ELSE BubbleInnerAscending(
             IF rowsToDelete[j] > rowsToDelete[j + 1]
             THEN [rowsToDelete EXCEPT ![j] = rowsToDelete[j + 1], ![j + 1] = rowsToDelete[j]]
             ELSE rowsToDelete,
             j + 1, last)

\* the inner loop of the bubble sort: j runs over the pairs (j, j + 1) up to last
RECURSIVE BubbleInner(_, _, _)
BubbleInner(rowsToDelete, j, last) ==
    IF j > last
    THEN rowsToDelete
    ELSE BubbleInner(
             IF rowsToDelete[j] < rowsToDelete[j + 1]
             THEN [rowsToDelete EXCEPT ![j] = rowsToDelete[j + 1], ![j + 1] = rowsToDelete[j]]
             ELSE rowsToDelete,
             j + 1, last)

\* the outer loop: pass i (from 0) covers the first count - 1 - i pairs
RECURSIVE BubbleOuter(_, _, _)
BubbleOuter(rowsToDelete, i, count) ==
    IF i >= count - 1
    THEN rowsToDelete
    ELSE BubbleOuter(BubbleInner(rowsToDelete, 1, count - 1 - i), i + 1, count)

\* the loop calling deleteRecordByRowNum on rowsToDelete[i], counting successes
RECURSIVE DeleteEach(_, _, _, _, _)
DeleteEach(t, h, rowsToDelete, i, deleted) ==
    IF i > Len(rowsToDelete)
    THEN Outcome(t, h, deleted, 0)
    ELSE LET r == deleteRecordByRowNum(t, h, rowsToDelete[i])
         IN  DeleteEach(r.table, r.heap, rowsToDelete, i + 1,
                        IF r.val # 0 THEN deleted + 1 ELSE deleted)

\* a line the Delete command printed without touching the table
DeleteSaid(msg) ==
    /\ ret' = [op |-> "deleteFound", val |-> 0, msg |-> msg]
    /\ UNCHANGED <<table, heap, root, cmd, file>>

\* what the numbers typed at "Your choice:" range over
DelChoices == (0 - 1)..(MaxRows + 1)

\* menu command Delete, mode 1 (search first): interactiveSearch, then the
\* choice between one result, all results and cancelling
DeleteFound(colIdx, cond, val, str, delChoice) ==
    /\ cmd.pc = "menu"
    /\ IF table.rowCount = 0
       THEN DeleteSaid("Table is empty.")
       ELSE \E sr \in interactiveSearch(table, heap, colIdx, cond, val, str) :
               IF IsNoSr(sr) \/ sr.count = 0
               THEN DeleteSaid("No records found.")
               ELSE IF delChoice = 0 - 1
               THEN DeleteSaid("Cancelled.")
               ELSE IF delChoice = 0
               THEN LET rowsToDelete == BubbleOuter(sr.rowNums, 0, sr.count)
                        r == DeleteEach(table, heap, rowsToDelete, 1, 0)
                    IN  /\ table' = r.table
                        /\ heap' = r.heap
                        /\ ret' = [op  |-> "deleteFound",
                                   val |-> [cond |-> cond, sr |-> sr,
                                            rowsToDelete |-> rowsToDelete, deleted |-> r.val],
                                   msg |-> "Deleted record(s)."]
                        /\ UNCHANGED <<root, cmd, file>>
               ELSE IF delChoice >= 1 /\ delChoice <= sr.count
               THEN LET r == deleteRecordByRowNum(table, heap, sr.rowNums[delChoice])
                    IN  /\ table' = r.table
                        /\ heap' = r.heap
                        /\ ret' = [op  |-> "deleteFound",
                                   val |-> sr.rowNums[delChoice],
                                   msg |-> IF r.val # 0 THEN "Deleted row." ELSE "Delete failed."]
                        /\ UNCHANGED <<root, cmd, file>>
               ELSE DeleteSaid("Invalid choice.")

NextDelete ==
    \/ \E colIdx \in (0 - 1)..table.numColumns, cond \in Conds, val \in SearchArgs,
          str \in SubStrs, delChoice \in DelChoices :
          DeleteFound(colIdx, cond, val, str, delChoice)
    \/ \E rowNum \in Positions : DeleteRecord(rowNum)

SpecDelete == InitSearch /\ [][NextDelete]_vars

(* --------------------------- filling a result set ---------------------- *)

\* how many entries one caller appends to a result set
MaxAppends == 33

\* the calls one scan makes: entry i is some row of the table, with its
\* position (a linear scan) or with 0 (an index walk through addToResult)
Appends(step, known) ==
    [i \in 1..MaxAppends |->
        Found(((i * step) % MaxRows) + 1, IF known THEN i ELSE 0)]

\* a fresh result set and the calls its caller is going to make
InitResult ==
    /\ \E columns \in Schemas : table = createTable(Len(columns), columns)
    /\ heap = [id \in NodeIds |-> FreeNode]
    /\ root = AvlNull
    /\ file = NoFile
    /\ ret = [op |-> "createSearchResult", val |-> 0, msg |-> 0]
    /\ \E step \in 1..MaxRows, known \in BOOLEAN :
          cmd = [pc |-> "collect", todo |-> Appends(step, known), done |-> 0,
                 sr |-> createSearchResult]

\* the caller's next addToResultWithRowNum(sr, rec, rowNum)
AppendWithRowNum ==
    /\ cmd.pc = "collect"
    /\ cmd.done < MaxAppends
    /\ cmd.todo[cmd.done + 1].rowNum # 0
    /\ cmd' = [cmd EXCEPT !.done = @ + 1,
                          !.sr = addToResultWithRowNum(cmd.sr, cmd.todo[cmd.done + 1].rec,
                                                       cmd.todo[cmd.done + 1].rowNum)]
    /\ ret' = [op |-> "addToResultWithRowNum", val |-> cmd'.sr.capacity, msg |-> 0]
    /\ UNCHANGED <<table, heap, root, file>>

\* the caller's next addToResult(sr, rec)
AppendResult ==
    /\ cmd.pc = "collect"
    /\ cmd.done < MaxAppends
    /\ cmd.todo[cmd.done + 1].rowNum = 0
    /\ cmd' = [cmd EXCEPT !.done = @ + 1,
                          !.sr = addToResult(cmd.sr, cmd.todo[cmd.done + 1].rec)]
    /\ ret' = [op |-> "addToResult", val |-> cmd'.sr.capacity, msg |-> 0]
    /\ UNCHANGED <<table, heap, root, file>>

NextResult ==
    \/ AppendWithRowNum
    \/ AppendResult

SpecResult == InitResult /\ [][NextResult]_vars

(* ------------------------------ C21 .. C25 ----------------------------- *)

\* C21: on an index holding d distinct keys avlFindTopN(n) returns exactly
\* min(n, d) entries (none when n <= 0), whose keys are the largest keys of the
\* tree in strictly descending order, and avlFindBottomN(n) returns min(n, d)
\* entries whose keys are the smallest keys in strictly ascending order; each
\* returned row is the one the node of that key references.
C21_IndexTopBottomN ==
    /\ (Searched(7) \/ Searched(8)) =>
          LET io == InOrder(buildAVLIndex(table, heap, ret.val.colIndex))
              d  == Len(io)
              n  == ret.val.val
              k  == IF n < d THEN n ELSE d
              sr == ret.val.res2
              at(i) == IF ret.val.cond = 7 THEN io[d + 1 - i] ELSE io[i]
          IN  /\ sr.count = k
              /\ Len(sr.records) = k
              /\ \A i \in 1..k : sr.records[i] = at(i).record
              /\ \A i \in 1..(k - 1) :
                    IF ret.val.cond = 7
                    THEN at(i).intKey > at(i + 1).intKey
                    ELSE at(i).intKey < at(i + 1).intKey
    /\ \A c \in 1..table.numColumns : \A n \in {IntMin, 0 - 1, 0} :
          table.columns[c].type = 1 =>
              /\ avlFindTopN(buildAVLIndex(table, heap, c), n).count = 0
              /\ avlFindBottomN(buildAVLIndex(table, heap, c), n).count = 0

\* a TOP N search asked for more entries than the two distinct keys that three
\* rows hold, and the index returned two
C21_Witness ==
    /\ Searched(7)
    /\ table.rowCount = 3
    /\ ret.val.val = IntMax
    /\ ret.val.res2.count = 2

\* the fewest nodes an AVL tree of height h can have
RECURSIVE MinNodes(_)
MinNodes(h) ==
    IF h <= 0 THEN 0
    ELSE IF h = 1 THEN 1
    ELSE MinNodes(h - 1) + MinNodes(h - 2) + 1

\* C22: whatever the order in which n distinct keys are inserted, the height h
\* of the tree satisfies n >= N(h) with N(0) = 0, N(1) = 1 and
\* N(h) = N(h-1) + N(h-2) + 1; in particular five distinct keys in any order
\* give a tree of height at most 3.
C22_HeightBound ==
    LET n == Len(InOrder(root))
    IN  /\ n >= MinNodes(TrueHeight(root))
        /\ n >= MinNodes(getHeight(root))
        /\ n = 5 => TrueHeight(root) <= 3

\* five distinct Integer keys were inserted and the tree has height 3
C22_Witness ==
    /\ ret.op = "insertInt"
    /\ Len(InOrder(root)) = 5
    /\ TrueHeight(root) = 3

\* 16, 32, 64, ...
RECURSIVE SixteenTimesPowerOfTwo(_)
SixteenTimesPowerOfTwo(c) ==
    IF c <= 16 THEN c = 16 ELSE c % 2 = 0 /\ SixteenTimesPowerOfTwo(c \div 2)

\* C23: a result set starts with capacity 16 and count 0; after any sequence of
\* appends count is the number of appends made, count <= capacity, capacity is
\* 16 times a power of two and is doubled only by an append made when count =
\* capacity; the entries are in append order and earlier entries survive every
\* growth.
C23_ResultSetGrowth ==
    /\ [](cmd.pc = "collect" =>
            /\ cmd.done = 0 => (cmd.sr.capacity = 16 /\ cmd.sr.count = 0)
            /\ cmd.sr.count = cmd.done
            /\ cmd.sr.count <= cmd.sr.capacity
            /\ SixteenTimesPowerOfTwo(cmd.sr.capacity)
            /\ Len(cmd.sr.records) = cmd.done
            /\ Len(cmd.sr.rowNums) = cmd.done
            /\ \A i \in 1..cmd.done :
                  /\ cmd.sr.records[i] = cmd.todo[i].rec
                  /\ cmd.sr.rowNums[i] = cmd.todo[i].rowNum)
    /\ [][(cmd.pc = "collect" /\ cmd'.sr.capacity # cmd.sr.capacity) =>
            /\ cmd'.sr.capacity = 2 * cmd.sr.capacity
            /\ cmd.sr.count = cmd.sr.capacity
            /\ cmd'.sr.count = cmd.sr.count + 1]_vars

\* the 33rd append found the set full for the second time: capacity 64
C23_Witness ==
    /\ cmd.pc = "collect"
    /\ ret.op = "addToResultWithRowNum"
    /\ cmd.sr.count = 33
    /\ cmd.sr.capacity = 64

\* the thresholds tried on a tree: below, among and above its keys
Thresholds == 0..(MaxKey + 1)

\* the nodes of a sequence whose intKey is at least / at most v, order kept
RECURSIVE NodesGE(_, _)
NodesGE(nodes, v) ==
    IF nodes = <<>> THEN <<>>
    ELSE IF Head(nodes).intKey >= v
         THEN <<Head(nodes)>> \o NodesGE(Tail(nodes), v)
         ELSE NodesGE(Tail(nodes), v)

RECURSIVE NodesLE(_, _)
NodesLE(nodes, v) ==
    IF nodes = <<>> THEN <<>>
    ELSE IF Head(nodes).intKey <= v
         THEN <<Head(nodes)>> \o NodesLE(Tail(nodes), v)
         ELSE NodesLE(Tail(nodes), v)

\* sr holds one entry per node of sel, in the order of sel
EntryPerNode(sr, sel) ==
    /\ sr.count = Len(sel)
    /\ Len(sr.records) = Len(sel)
    /\ \A i \in 1..Len(sel) : sr.records[i] = sel[i].record

\* C24: for every AVL tree and every threshold v, avlFindGE returns exactly one
\* entry per node whose key is >= v and no other entry, in ascending key order,
\* and avlFindLE does the same for the keys <= v; the pruning never skips a
\* qualifying node.
C24_RangeExact ==
    \A v \in Thresholds :
        LET ge == NodesGE(InOrder(root), v)
            le == NodesLE(InOrder(root), v)
        IN  /\ EntryPerNode(avlFindGE(root, v), ge)
            /\ EntryPerNode(avlFindLE(root, v), le)
            /\ \A n \in Subtrees(root) :
                  /\ n.intKey >= v => \E i \in 1..Len(ge) : ge[i] = n
                  /\ n.intKey <= v => \E i \in 1..Len(le) : le[i] = n
            /\ (~IsNull(root) /\ root.keyType = 1) =>
                  /\ \A i \in 1..(Len(ge) - 1) : ge[i].intKey < ge[i + 1].intKey
                  /\ \A i \in 1..(Len(le) - 1) : le[i].intKey < le[i + 1].intKey

\* a tree of six Integer keys whose root is below the threshold 5 (the left
\* subtree is pruned) and whose root is above the threshold 2 (the right one is)
C24_Witness ==
    /\ ret.op = "insertInt"
    /\ Len(InOrder(root)) = 6
    /\ root.intKey < 5
    /\ root.intKey > 2
    /\ avlFindGE(root, 5).count = Len(NodesGE(InOrder(root), 5))
    /\ avlFindGE(root, 5).count >= 2
    /\ avlFindLE(root, 2).count >= 1

\* what a node carries besides its links and its height
Payload(n) ==
    [intKey |-> n.intKey, strKey |-> n.strKey, keyType |-> n.keyType, record |-> n.record]

\* the payloads of a tree in in-order sequence
PayloadsInOrder(node) ==
    LET io == InOrder(node) IN [i \in 1..Len(io) |-> Payload(io[i])]

\* a rotation's result r of the subtree n: nothing but shape changed, and the
\* demoted node and the new root both store their real heights
SameNodesRightHeights(n, r, demoted) ==
    /\ PayloadsInOrder(r) = PayloadsInOrder(n)
    /\ Cardinality(Subtrees(r)) = Cardinality(Subtrees(n))
    /\ demoted.height = TrueHeight(demoted)
    /\ r.height = TrueHeight(r)

\* C25: rotateRight on a node with a left child and rotateLeft on a node with a
\* right child return a subtree with exactly the same nodes, keys, row
\* references and in-order sequence; the demoted node's height is recomputed
\* before the new subtree root's, so both stored heights are correct.
C25_RotationKeepsNodes ==
    \A n \in Subtrees(root) :
        /\ ~IsNull(n.left) =>
              LET r == rotateRight(n)
              IN  /\ SameNodesRightHeights(n, r, r.right)
                  /\ Payload(r) = Payload(n.left)
                  /\ Payload(r.right) = Payload(n)
        /\ ~IsNull(n.right) =>
              LET r == rotateLeft(n)
              IN  /\ SameNodesRightHeights(n, r, r.left)
                  /\ Payload(r) = Payload(n.right)
                  /\ Payload(r.left) = Payload(n)

\* a tree of five keys, heavier on the right of the root, where a left
\* rotation of the root lowers the height the old root stores
C25_Witness ==
    /\ ret.op = "insertInt"
    /\ Len(InOrder(root)) = 5
    /\ ~IsNull(root.right)
    /\ rotateLeft(root).left.height < root.height

(* ------------------------------ C26 .. C30 ----------------------------- *)

\* C26: after any sequence of addRecord, deleteRecordByRowNum and
\* updateRecordByRowNum calls, successful or failed, rowCount is the number of
\* rows reachable from head and is >= 0, head is NULL exactly when tail is NULL
\* and exactly when rowCount is 0, and on a non-empty table tail is the last
\* reachable row and its next is NULL.
C26_ListShape ==
    LET ids == RowIds(table, heap)
    IN  /\ table.rowCount = Len(ids)
        /\ table.rowCount >= 0
        /\ (table.head = NULL) <=> (table.tail = NULL)
        /\ (table.head = NULL) <=> (table.rowCount = 0)
        /\ table.rowCount > 0 =>
              /\ table.tail = ids[Len(ids)]
              /\ heap[table.tail].next = NULL
        /\ \A i, j \in 1..Len(ids) : i # j => ids[i] # ids[j]

\* the last row of a table of three rows was deleted: tail moved back
C26_Witness ==
    /\ ret.op = "delete"
    /\ ret.val = 1
    /\ table.rowCount = 2
    /\ \E id \in NodeIds : IsFree(heap[id]) /\ table.tail # NULL /\ heap[table.head].next = table.tail
    /\ \A id \in NodeIds : IsFree(heap[id]) => id > table.tail

\* the strings looked for: the empty one, ones that rows hold, ones they contain
ScanStrs == {<<>>, <<1>>, <<2>>, <<1, 2>>, <<2, 1>>}

\* sr holds exactly the positions S, one entry each with the row at that
\* position, in strictly ascending position order
ScanExact(sr, S) ==
    LET ids == RowIds(table, heap)
    IN  /\ sr.count = Cardinality(S)
        /\ Len(sr.rowNums) = sr.count
        /\ Len(sr.records) = sr.count
        /\ {sr.rowNums[i] : i \in 1..sr.count} = S
        /\ \A i \in 1..(sr.count - 1) : sr.rowNums[i] < sr.rowNums[i + 1]
        /\ \A i \in 1..sr.count : sr.records[i] = ids[sr.rowNums[i]]

\* the cell of the row at position p in column c
CellAt(p, c) == heap[RowIds(table, heap)[p]].cells[c]

\* the positions whose cell in column c is an Integer / a string
IntRows(c) == {p \in 1..table.rowCount : CellAt(p, c).type = 1}
StrRows(c) == {p \in 1..table.rowCount : CellAt(p, c).type = 2 /\ CellAt(p, c).str_val # NullStr}

\* s occurs in str as a run of consecutive characters
OccursIn(s, str) ==
    \E a, b \in 0..Len(str) : a + Len(s) + b = Len(str) /\
        \A k \in 1..Len(s) : str[a + k] = s[k]

\* C27: each linear scan (linearFindEqual, linearFindGE, linearFindLE,
\* linearFindContains, linearFindStrEqual) returns exactly the rows that satisfy
\* its predicate, one entry per row, in strictly ascending position order, and
\* an empty result set when no row matches.
C27_ScansExact ==
    /\ \A c \in 1..table.numColumns :
          /\ \A v \in SearchArgs :
                /\ ScanExact(linearFindEqual(table, heap, c, v),
                             {p \in IntRows(c) : CellAt(p, c).int_val = v})
                /\ ScanExact(linearFindGE(table, heap, c, v),
                             {p \in IntRows(c) : CellAt(p, c).int_val >= v})
                /\ ScanExact(linearFindLE(table, heap, c, v),
                             {p \in IntRows(c) : CellAt(p, c).int_val <= v})
          /\ \A s \in ScanStrs :
                /\ ScanExact(linearFindContains(table, heap, c, s),
                             {p \in StrRows(c) : OccursIn(s, CellAt(p, c).str_val)})
                /\ ScanExact(linearFindStrEqual(table, heap, c, s),
                             {p \in StrRows(c) : CellAt(p, c).str_val = s})
    /\ (Searched(3) \/ Searched(4) \/ Searched(5)) =>
          ret.val.res1 = (CASE ret.val.cond = 3 ->
                                  linearFindEqual(table, heap, ret.val.colIndex, ret.val.val)
                            [] ret.val.cond = 4 ->
                                  linearFindGE(table, heap, ret.val.colIndex, ret.val.val)
                            [] ret.val.cond = 5 ->
                                  linearFindLE(table, heap, ret.val.colIndex, ret.val.val))
    /\ Searched(6) =>
          ret.val.res1 = linearFindContains(table, heap, ret.val.colIndex, ret.val.val)

\* a substring search found the first and the third of three rows, the first
\* holding the substring after another character
C27_Witness ==
    /\ Searched(6)
    /\ table.rowCount = 3
    /\ ret.val.val = <<2>>
    /\ ret.val.res1.rowNums = <<1, 3>>
    /\ CellAt(1, ret.val.colIndex).str_val = <<1, 2>>

\* the rows of ids whose position, counted from p, is not in S
RECURSIVE RowsOutside(_, _, _)
RowsOutside(ids, p, S) ==
    IF ids = <<>> THEN <<>>
    ELSE IF p \in S
         THEN RowsOutside(Tail(ids), p + 1, S)
         ELSE <<Head(ids)>> \o RowsOutside(Tail(ids), p + 1, S)

\* the Delete command has just deleted all the rows it found
DeletedAll == ret.op = "deleteFound" /\ ret.msg = "Deleted record(s)."

\* C28: in the Delete command's "delete ALL found records" option the scan-time
\* positions of the result set, in whatever order they come (e.g. from TOP N),
\* are processed in descending order, so every deletion succeeds, the reported
\* deleted count equals the result count, and the table afterwards contains
\* exactly the rows that were not in the result set, in their original order.
C28_DeleteAllFound ==
    [][(ret'.op = "deleteFound" /\ ret'.msg = "Deleted record(s).") =>
          LET sr   == ret'.val.sr
              rows == ret'.val.rowsToDelete
              ids  == RowIds(table, heap)
              S    == {sr.rowNums[i] : i \in 1..sr.count}
          IN  /\ Len(rows) = sr.count
              /\ {rows[i] : i \in 1..sr.count} = S
              /\ \A i \in 1..(sr.count - 1) : rows[i] > rows[i + 1]
              /\ ret'.val.deleted = sr.count
              /\ table'.rowCount = table.rowCount - sr.count
              /\ RowIds(table', heap') = RowsOutside(ids, 1, S)
              /\ {sr.records[i] : i \in 1..sr.count} = {ids[p] : p \in S}
              /\ \A id \in NodeIds :
                    IF id \in {ids[p] : p \in S}
                    THEN IsFree(heap'[id])
                    ELSE heap'[id] = heap[id] \/ (~IsFree(heap'[id]) /\
                                                  heap'[id].cells = heap[id].cells)]_vars

\* a TOP 2 search returned the first and the third row in ascending position
\* order; both were deleted and the second row is what is left
C28_Witness ==
    /\ DeletedAll
    /\ ret.val.cond = 7
    /\ ret.val.sr.rowNums = <<1, 3>>
    /\ ret.val.rowsToDelete = <<3, 1>>
    /\ ret.val.deleted = 2
    /\ table.rowCount = 1

\* the first position of the table whose cell in column c holds v
FirstHolding(c, v) ==
    CHOOSE p \in 1..table.rowCount :
        /\ CellAt(p, c).int_val = v
        /\ \A q \in 1..(p - 1) : CellAt(q, c).int_val # v

\* C29: for a non-empty table and an Integer column, the row referenced by
\* avlFindMax (avlFindMin) on a freshly built index is the very row that
\* linearFindMax (linearFindMin) returns: both pick the lowest-position row
\* holding the extreme value, also when that value occurs in several rows.
C29_ExtremeSameRow ==
    /\ \A c \in 1..table.numColumns :
          (table.rowCount > 0 /\ table.columns[c].type = 1) =>
              LET index  == buildAVLIndex(table, heap, c)
                  ids    == RowIds(table, heap)
                  values == {CellAt(p, c).int_val : p \in 1..table.rowCount}
                  hi     == CHOOSE v \in values : \A w \in values : w <= v
                  lo     == CHOOSE v \in values : \A w \in values : v <= w
              IN  /\ avlFindMax(index).record = linearFindMax(table, heap, c).rec
                  /\ avlFindMin(index).record = linearFindMin(table, heap, c).rec
                  /\ avlFindMax(index).record = ids[FirstHolding(c, hi)]
                  /\ avlFindMin(index).record = ids[FirstHolding(c, lo)]
                  /\ linearFindMax(table, heap, c).rowNum = FirstHolding(c, hi)
                  /\ linearFindMin(table, heap, c).rowNum = FirstHolding(c, lo)
    /\ (Searched(1) \/ Searched(2)) =>
          /\ ~IsNull(ret.val.res2)
          /\ ret.val.res2.record = ret.val.res1.rec

\* a MIN search on three rows of which the second and the third hold the
\* smallest value: the scan and the index both name the second row
C29_Witness ==
    /\ Searched(2)
    /\ table.rowCount = 3
    /\ ret.val.res1.rowNum = 2
    /\ CellAt(3, ret.val.colIndex).int_val = CellAt(2, ret.val.colIndex).int_val
    /\ ret.val.res2.record = RowIds(table, heap)[2]

\* the rows that are allocated / the rows of the active table
LiveRows == {id \in NodeIds : ~IsFree(heap[id])}
TableRows == {RowIds(table, heap)[p] : p \in 1..Len(RowIds(table, heap))}

\* C30: in the command loop a Load whose loadTableFromJson call returns no
\* table leaves the active table exactly as it was (same schema and rows); a
\* successful load replaces the active table with the loaded one and destroys
\* the previous one; there is never more than one active table.
C30_LoadReplacesOrKeeps ==
    /\ [](LiveRows = TableRows)
    /\ [][(ret'.op = "load" /\ LoadTable) =>
            IF ret'.msg = "Load failed."
            THEN /\ table' = table
                 /\ heap' = heap
                 /\ ReturnsNull \in loadTableFromJson(file)
            ELSE ret'.msg = "Loaded." =>
                    \E out \in loadTableFromJson(file) :
                        /\ out.kind = "table"
                        /\ table' = out.table
                        /\ heap' = out.heap]_vars

\* a Load of a file that does not exist failed while the table held two rows
C30_Witness ==
    /\ ret.op = "load"
    /\ ret.msg = "Load failed."
    /\ table.rowCount = 2
    /\ file = NoFile

====
